---- MODULE Spec2Model ----
(***************************************************************************)
(* A model of bugsafe's core: the redaction engine (patterns, tokenizer,   *)
(* path anonymizer) and the bundle container (writer, reader).             *)
(*                                                                         *)
(* Text is a sequence of one-character strings.  Regular expressions are   *)
(* sequences of elements (a character class with a quantifier, or a        *)
(* zero-width assertion) matched the way Python's re module matches them:  *)
(* leftmost, alternatives in order, greedy with backtracking.              *)
(***************************************************************************)
EXTENDS Integers, Sequences, FiniteSets, TLC

(***************************************************************************)
(* Characters                                                              *)
(***************************************************************************)
Digit == {"0", "1", "2", "3", "4", "5", "6", "7", "8", "9"}
Lower == {"a", "b", "c", "d", "e", "f", "g", "h", "i", "j", "k", "l", "m",
          "n", "o", "p", "q", "r", "s", "t", "u", "v", "w", "x", "y", "z"}
Upper == {"A", "B", "C", "D", "E", "F", "G", "H", "I", "J", "K", "L", "M",
          "N", "O", "P", "Q", "R", "S", "T", "U", "V", "W", "X", "Y", "Z"}
\* str.isspace() / the regex class \s, over the characters the model uses
Space == {" ", "\n", "\t"}
\* the regex class \w
Word  == Lower \cup Upper \cup Digit \cup {"_"}

\* str.upper() of one character
UpperOf(c) ==
    CASE c = "a" -> "A" [] c = "b" -> "B" [] c = "c" -> "C" [] c = "d" -> "D"
      [] c = "e" -> "E" [] c = "f" -> "F" [] c = "g" -> "G" [] c = "h" -> "H"
      [] c = "i" -> "I" [] c = "j" -> "J" [] c = "k" -> "K" [] c = "l" -> "L"
      [] c = "m" -> "M" [] c = "n" -> "N" [] c = "o" -> "O" [] c = "p" -> "P"
      [] c = "q" -> "Q" [] c = "r" -> "R" [] c = "s" -> "S" [] c = "t" -> "T"
      [] c = "u" -> "U" [] c = "v" -> "V" [] c = "w" -> "W" [] c = "x" -> "X"
      [] c = "y" -> "Y" [] c = "z" -> "Z" [] OTHER -> c

\* str.lower() of one character
LowerOf(c) == IF c \in Upper THEN CHOOSE l \in Lower : UpperOf(l) = c ELSE c

\* c repeated n times
Rep(c, n) == [i \in 1..n |-> c]

(***************************************************************************)
(* Strings: the str methods the code uses                                  *)
(***************************************************************************)
\* s[i:j] with 1-based i and exclusive j
Slice(s, i, j) == SubSeq(s, i, j - 1)

\* s.startswith(p) at offset i (1-based)
StartsWithAt(s, p, i) ==
    /\ i + Len(p) - 1 <= Len(s)
    /\ \A k \in 1..Len(p) : s[i + k - 1] = p[k]

StartsWith(s, p) == StartsWithAt(s, p, 1)
EndsWith(s, p) == Len(p) <= Len(s) /\ StartsWithAt(s, p, Len(s) - Len(p) + 1)

\* p in s
Contains(s, p) == \E i \in 1..(Len(s) - Len(p) + 1) : StartsWithAt(s, p, i)

\* the least element of a non-empty set of integers
Min(S) == CHOOSE x \in S : \A y \in S : x <= y

\* the spans [start, end) of the occurrences of lit that s.replace(lit, _)
\* rewrites: left to right, not overlapping
RECURSIVE FindLiteral(_, _, _)
FindLiteral(s, lit, i) ==
    LET hits == {j \in i..(Len(s) - Len(lit) + 1) : StartsWithAt(s, lit, j)}
    IN  IF Len(lit) = 0 \/ hits = {} THEN << >>
        ELSE << <<Min(hits), Min(hits) + Len(lit)>> >>
             \o FindLiteral(s, lit, Min(hits) + Len(lit))

\* s with every span of `spans' (ascending, disjoint, each [start, end))
\* replaced by repl[k], copying from position i on
RECURSIVE Subst(_, _, _, _, _)
Subst(s, spans, repl, k, i) ==
    IF k > Len(spans) THEN Slice(s, i, Len(s) + 1)
    ELSE Slice(s, i, spans[k][1]) \o repl[k]
         \o Subst(s, spans, repl, k + 1, spans[k][2])

\* str(n) for n >= 0
RECURSIVE Str(_)
Str(n) ==
    LET d == CHOOSE c \in Digit :
                 c = <<"0", "1", "2", "3", "4", "5", "6", "7", "8", "9">>[(n % 10) + 1]
    IN  IF n < 10 THEN <<d>> ELSE Str(n \div 10) \o <<d>>

\* s.count(c)
Count(s, c) == Cardinality({i \in 1..Len(s) : s[i] = c})

(***************************************************************************)
(* Regular expressions (Python's re, on the constructs the patterns use)   *)
(*                                                                         *)
(* A regex is a sequence of alternatives tried in order; an alternative is *)
(* a sequence of elements with the element ranges of its capture groups.   *)
(* An element is a character class with a quantifier {min,max} (max = -1:  *)
(* unbounded; greedy unless lazy) or a zero-width assertion.               *)
(***************************************************************************)
Cls(S, lo, hi) ==
    [kind |-> "cls", set |-> S, neg |-> FALSE, min |-> lo, max |-> hi, lazy |-> FALSE]
NotCls(S, lo, hi) ==
    [kind |-> "cls", set |-> S, neg |-> TRUE, min |-> lo, max |-> hi, lazy |-> FALSE]
Lazy(e) == [e EXCEPT !.lazy = TRUE]
Lit(c) == Cls({c}, 1, 1)
\* a literal string; under re.IGNORECASE a lower-case letter matches both cases
LitSeq(s) == [i \in 1..Len(s) |-> Lit(s[i])]
LitSeqI(s) == [i \in 1..Len(s) |-> Cls({s[i], UpperOf(s[i]), LowerOf(s[i])}, 1, 1)]
\* \b
WordBoundary ==
    [kind |-> "wb", set |-> Word, neg |-> FALSE, min |-> 0, max |-> 0, lazy |-> FALSE]
\* (?<![S]) and (?![S])
NotBehind(S) ==
    [kind |-> "nlb", set |-> S, neg |-> FALSE, min |-> 0, max |-> 0, lazy |-> FALSE]
NotAhead(S) ==
    [kind |-> "nla", set |-> S, neg |-> FALSE, min |-> 0, max |-> 0, lazy |-> FALSE]
\* (?=[S]|$)
AheadOrEnd(S) ==
    [kind |-> "la$", set |-> S, neg |-> FALSE, min |-> 0, max |-> 0, lazy |-> FALSE]

\* (?<=lit)
Behind(lit) ==
    [kind |-> "lb", set |-> {}, neg |-> FALSE, min |-> 0, max |-> 0, lazy |-> FALSE,
     lit |-> lit]

Alt(elems, groups) == [elems |-> elems, groups |-> groups]

InCls(e, c) == (c \in e.set) # e.neg

\* the number of consecutive characters of text from pos on that are in the
\* class of e, at most cap (cap = -1: no cap)
RunLen(e, text, pos, cap) ==
    IF pos > Len(text) \/ ~InCls(e, text[pos]) \/ cap = 0 THEN 0
    ELSE LET hi == IF cap = -1 \/ pos + cap > Len(text)
                   THEN Len(text) + 1 ELSE pos + cap
         IN  Min({j \in (pos + 1)..hi : j = hi \/ ~InCls(e, text[j])}) - pos

\* a zero-width assertion at pos (the position of the next character)
Holds(e, text, pos) ==
    LET before == pos > 1 /\ text[pos - 1] \in e.set
        after  == pos <= Len(text) /\ text[pos] \in e.set
    IN  CASE e.kind = "wb"  -> before # after
          [] e.kind = "nlb" -> ~before
          [] e.kind = "nla" -> ~after
          \* $ without re.MULTILINE: at the end, or before a final newline
          [] e.kind = "la$" -> \/ after
                               \/ pos > Len(text)
                               \/ pos = Len(text) /\ text[pos] = "\n"
          [] e.kind = "lb"  -> pos > Len(e.lit) /\ StartsWithAt(text, e.lit, pos - Len(e.lit))

\* the positions of a match that continues with r from pos on; << >> is no match
Cons(pos, r) == IF r = << >> THEN << >> ELSE <<pos>> \o r

\* r, or `other' when r is no match
OrElse(r, other) == IF r # << >> THEN r ELSE other

\* Match elements k.. of elems at pos. << >> when there is no match, else
\* <<pos, b_k, ..., b_n>>: b_j is the position after element j.
RECURSIVE MatchFrom(_, _, _, _), TryCount(_, _, _, _, _, _, _)
\* element k is the class e, of which avail characters follow pos
MatchCls(elems, k, text, pos, e, avail) ==
    IF avail < e.min THEN << >>
    ELSE IF e.lazy THEN TryCount(elems, k, text, pos, e.min, avail, 1)
    ELSE TryCount(elems, k, text, pos, avail, e.min, -1)
MatchFrom(elems, k, text, pos) ==
    IF k > Len(elems) THEN <<pos>>
    \* the elements k .. k + n - 1 that match exactly one character each leave
    \* nothing to backtrack over
    ELSE IF elems[k].kind = "cls" /\ elems[k].min = 1 /\ elems[k].max = 1
    THEN LET single(j) == /\ elems[j].kind = "cls"
                          /\ elems[j].min = 1 /\ elems[j].max = 1
             n == Min({j \in (k + 1)..(Len(elems) + 1) :
                          j = Len(elems) + 1 \/ ~single(j)}) - k
             rest == MatchFrom(elems, k + n, text, pos + n)
         IN  IF /\ pos + n - 1 <= Len(text)
                /\ \A j \in 0..(n - 1) : InCls(elems[k + j], text[pos + j])
                /\ rest # << >>
             THEN [j \in 1..n |-> pos + j - 1] \o rest
             ELSE << >>
    ELSE IF elems[k].kind = "cls"
    THEN MatchCls(elems, k, text, pos, elems[k],
                  RunLen(elems[k], text, pos, elems[k].max))
    ELSE IF Holds(elems[k], text, pos)
    THEN Cons(pos, MatchFrom(elems, k + 1, text, pos))
    ELSE << >>
\* backtracking over the repetition count of element k: n, n + step, ... last
TryCount(elems, k, text, pos, n, last, step) ==
    OrElse(Cons(pos, MatchFrom(elems, k + 1, text, pos + n)),
           IF n = last THEN << >>
           ELSE TryCount(elems, k, text, pos, n + step, last, step))

\* the first alternative from a on that matches at pos; << >> for none
RECURSIVE MatchAt(_, _, _, _)
\* b is what alternative a matched at pos
MatchAlt(re, a, text, pos, b) ==
    IF b # << >>
    THEN << [start |-> pos, end |-> b[Len(b)], alt |-> a, b |-> b] >>
    ELSE MatchAt(re, a + 1, text, pos)
MatchAt(re, a, text, pos) ==
    IF a > Len(re) THEN << >>
    ELSE MatchAlt(re, a, text, pos, MatchFrom(re[a].elems, 1, text, pos))

\* the leftmost matches from pos on, not overlapping, given the match at[q]
\* that starts at each position q
RECURSIVE Leftmost(_, _)
AfterMatch(at, m) ==
    m \o Leftmost(at, IF m[1].end = m[1].start THEN m[1].end + 1 ELSE m[1].end)
LeftmostOf(at, starts) ==
    IF starts = {} THEN << >> ELSE AfterMatch(at, at[Min(starts)])
Leftmost(at, pos) ==
    LeftmostOf(at, {q \in DOMAIN at : q >= pos /\ at[q] # << >>})

\* some alternative of re places no condition on the character it begins with
AnyStart(re) ==
    \E a \in 1..Len(re) :
        \/ re[a].elems = << >>
        \/ re[a].elems[1].kind # "cls"
        \/ re[a].elems[1].min = 0
        \/ re[a].elems[1].neg

\* the characters a match of re can begin with, when ~AnyStart(re)
FirstSet(re) == UNION {re[a].elems[1].set : a \in 1..Len(re)}

\* the positions from pos on where a match is looked for: all of them, or
\* those of the characters of first
Candidates(text, pos, any, first) ==
    IF any THEN pos..(Len(text) + 1)
    ELSE {p \in pos..Len(text) : text[p] \in first}

\* regex.finditer(text) from pos on
FindIter(re, text, pos) ==
    Leftmost([q \in Candidates(text, pos, AnyStart(re), FirstSet(re))
                 |-> MatchAt(re, 1, text, q)], pos)

\* the spans [start, end) of the matches ms
MatchSpans(ms) == [k \in 1..Len(ms) |-> <<ms[k].start, ms[k].end>>]

\* the number of capture groups of the regex
NumGroups(re) == Len(re[1].groups)

\* the span of match.group(g), 1 <= g <= NumGroups
GroupSpan(re, m, g) ==
    LET r == re[m.alt].groups[g]
    IN  <<m.b[r[1]], m.b[r[2] + 1]>>

(***************************************************************************)
(* Tokenizer (redact/tokenizer.py)                                         *)
(***************************************************************************)
MAX_SECRET_LENGTH == 1024

\* str.strip()
RECURSIVE LStrip(_), RStrip(_)
LStrip(s) == IF s # << >> /\ Head(s) \in Space THEN LStrip(Tail(s)) ELSE s
RStrip(s) ==
    IF s # << >> /\ s[Len(s)] \in Space THEN RStrip(SubSeq(s, 1, Len(s) - 1)) ELSE s
Strip(s) == RStrip(LStrip(s))

\* unicodedata.normalize("NFC", s) on the code points of the model: "e"
\* followed by the combining acute accent U+0301 composes to U+00E9
RECURSIVE NFC(_)
NFC(s) ==
    IF \A i \in 1..Len(s) : s[i] # "U+0301" THEN s
    ELSE IF Len(s) >= 2 /\ s[1] = "e" /\ s[2] = "U+0301"
         THEN <<"U+00E9">> \o NFC(SubSeq(s, 3, Len(s)))
         ELSE <<s[1]>> \o NFC(Tail(s))

\* Tokenizer._normalize
Normalize(secret) ==
    LET stripped == Strip(secret)
        cut == IF Len(stripped) > MAX_SECRET_LENGTH
               THEN SubSeq(stripped, 1, MAX_SECRET_LENGTH) ELSE stripped
    IN  NFC(cut)

\* str.isdigit() (false for the empty string)
IsDigits(s) == s # << >> /\ \A i \in 1..Len(s) : s[i] \in Digit

\* Tokenizer.is_token
is_token(t) ==
    /\ StartsWith(t, <<"<">>)
    /\ EndsWith(t, <<">">>)
    /\ LET inner == SubSeq(t, 2, Len(t) - 1)
       IN  /\ \E i \in 1..Len(inner) : inner[i] = "_"
           /\ LET last == CHOOSE i \in 1..Len(inner) :
                              /\ inner[i] = "_"
                              /\ \A j \in (i + 1)..Len(inner) : inner[j] # "_"
              IN  IsDigits(SubSeq(inner, last + 1, Len(inner)))

\* category.upper().replace(" ", "_")
CategoryUpper(category) ==
    [i \in 1..Len(category) |->
        IF category[i] = " " THEN "_" ELSE UpperOf(category[i])]

\* f"<{category_upper}_{count}>"
TokenText(category_upper, count) ==
    <<"<">> \o category_upper \o <<"_">> \o Str(count) \o <<">">>

CounterOf(counters, cu) == IF cu \in DOMAIN counters THEN counters[cu] ELSE 0

\* tokenize without lines 53-55: the counter of the category is never
\* incremented, so every new secret of a category gets the number 0
tokenize_uncounted(tk, secret, category) ==
    LET normalized == Normalize(secret)
        cu    == CategoryUpper(category)
        token == TokenText(cu, CounterOf(tk.category_counters, cu))
    IN  IF secret = << >> \/ Strip(secret) = << >> \/ normalized = << >>
        THEN [token |-> secret, tk |-> tk]
        ELSE IF normalized \in DOMAIN tk.cache
        THEN [token |-> tk.cache[normalized], tk |-> tk]
        ELSE [token |-> token,
              tk |-> [tk EXCEPT !.cache =
                          (IF secret # normalized THEN (secret :> token) ELSE << >>)
                          @@ (normalized :> token) @@ @]]

\* Tokenizer.tokenize on the tokenizer state tk = [cache, category_counters]:
\* the token returned and the state after the call
tokenize(tk, secret, category) ==
    LET normalized == Normalize(secret)
        cu    == CategoryUpper(category)
        count == CounterOf(tk.category_counters, cu) + 1
        token == TokenText(cu, count)
    IN  IF secret = << >> \/ Strip(secret) = << >> \/ normalized = << >>
        THEN [token |-> secret, tk |-> tk]
        ELSE IF normalized \in DOMAIN tk.cache
        THEN [token |-> tk.cache[normalized], tk |-> tk]
        ELSE [token |-> token,
              tk |-> [cache |->
                          (IF secret # normalized THEN (secret :> token) ELSE << >>)
                          @@ (normalized :> token) @@ tk.cache,
                      category_counters |->
                          (cu :> count) @@ tk.category_counters]]

\* tokenize interrupted by the timer signal between the counter increment
\* (tokenizer.py line 55) and the cache insertion (line 59)
tokenize_interrupted(tk, secret, category) ==
    LET normalized == Normalize(secret)
        cu == CategoryUpper(category)
    IN  IF secret = << >> \/ Strip(secret) = << >> \/ normalized = << >>
           \/ normalized \in DOMAIN tk.cache
        THEN tk
        ELSE [tk EXCEPT !.category_counters =
                 (cu :> (CounterOf(tk.category_counters, cu) + 1)) @@ @]

\* Tokenizer() / Tokenizer.reset(): the salt plays no part in the tokens
NewTokenizer == [cache |-> << >>, category_counters |-> << >>]

(***************************************************************************)
(* Pattern registry (redact/patterns.py)                                   *)
(***************************************************************************)
CRITICAL == 100
HIGH     == 90
MEDIUM   == 80
LOW      == 70
OPTIONAL == 60
DISABLED == 0

\* category names and keywords, as character sequences
CAT_AWS_KEY == <<"A", "W", "S", "_", "K", "E", "Y">>
CAT_SLACK_TOKEN == <<"S", "L", "A", "C", "K", "_", "T", "O", "K", "E", "N">>
CAT_PASSWORD == <<"P", "A", "S", "S", "W", "O", "R", "D">>
CAT_EMAIL == <<"E", "M", "A", "I", "L">>
CAT_IP_PRIVATE == <<"I", "P", "_", "P", "R", "I", "V", "A", "T", "E">>
CAT_IP_PUBLIC == <<"I", "P", "_", "P", "U", "B", "L", "I", "C">>
CAT_UUID == <<"U", "U", "I", "D">>
KW_PASSWORD == <<"p", "a", "s", "s", "w", "o", "r", "d">>
KW_PASSWD == <<"p", "a", "s", "s", "w", "d">>
KW_PWD == <<"p", "w", "d">>
KW_SECRET == <<"s", "e", "c", "r", "e", "t">>

Alnum == Lower \cup Upper \cup Digit
Quote == {"\"", "'"}
Hex   == Digit \cup {"a", "b", "c", "d", "e", "f"}

aws_access_key ==
    [name |-> "aws_access_key",
     regex |-> [pattern |-> "AKIA[0-9A-Z]{16}",
                alts |-> << Alt(LitSeq(<<"A", "K", "I", "A">>)
                                \o << Cls(Digit \cup Upper, 16, 16) >>, << >>) >>],
     category |-> CAT_AWS_KEY,
     priority |-> CRITICAL,
     capture_group |-> 0]

slack_token ==
    [name |-> "slack_token",
     regex |-> [pattern |-> "xox[baprs]-[A-Za-z0-9-]{10,}",
                alts |-> << Alt(LitSeq(<<"x", "o", "x">>)
                                \o << Cls({"b", "a", "p", "r", "s"}, 1, 1), Lit("-"),
                                      Cls(Alnum \cup {"-"}, 10, -1) >>, << >>) >>],
     category |-> CAT_SLACK_TOKEN,
     priority |-> CRITICAL,
     capture_group |-> 0]

\* one alternative of password_field per keyword of its first group
PasswordAlt(keyword) ==
    Alt(LitSeqI(keyword)
        \o << Cls(Quote \cup Space \cup {":", "="}, 1, -1),
              Cls(Quote, 0, 1),
              NotCls(Space \cup Quote \cup {",", "}", "{", ":", "]"}, 4, -1),
              Cls(Quote, 0, 1) >>,
        << <<1, Len(keyword)>>, <<Len(keyword) + 3, Len(keyword) + 3>> >>)

password_field ==
    [name |-> "password_field",
     regex |-> [pattern |->
                    "(?i)(password|passwd|pwd|secret)[\\\"'\\s:=]+[\\\"']?([^\\s\\\"',}{:\\]]{4,})[\\\"']?",
                alts |-> << PasswordAlt(KW_PASSWORD), PasswordAlt(KW_PASSWD),
                            PasswordAlt(KW_PWD), PasswordAlt(KW_SECRET) >>],
     category |-> CAT_PASSWORD,
     priority |-> MEDIUM,
     capture_group |-> 2]

email ==
    [name |-> "email",
     regex |-> [pattern |-> "\\b[A-Za-z0-9._%+-]+@[A-Za-z0-9.-]+\\.[A-Za-z]{2,}\\b",
                alts |-> << Alt(<< WordBoundary,
                                   Cls(Alnum \cup {".", "_", "%", "+", "-"}, 1, -1),
                                   Lit("@"),
                                   Cls(Alnum \cup {".", "-"}, 1, -1),
                                   Lit("."),
                                   Cls(Lower \cup Upper, 2, -1),
                                   WordBoundary >>, << >>) >>],
     category |-> CAT_EMAIL,
     priority |-> OPTIONAL,
     capture_group |-> 0]

\* re.IGNORECASE: [0-9a-f] also matches A-F
HexI == Hex \cup {"A", "B", "C", "D", "E", "F"}
uuid ==
    [name |-> "uuid",
     regex |-> [pattern |->
                    "\\b[0-9a-f]{8}-[0-9a-f]{4}-[0-9a-f]{4}-[0-9a-f]{4}-[0-9a-f]{12}\\b",
                alts |-> << Alt(<< WordBoundary, Cls(HexI, 8, 8), Lit("-"),
                                   Cls(HexI, 4, 4), Lit("-"), Cls(HexI, 4, 4), Lit("-"),
                                   Cls(HexI, 4, 4), Lit("-"), Cls(HexI, 12, 12),
                                   WordBoundary >>, << >>) >>],
     category |-> CAT_UUID,
     priority |-> DISABLED,
     capture_group |-> 0]

\* the patterns of DEFAULT_PATTERNS that the model carries, in registry order
DEFAULT_PATTERNS == <<slack_token, password_field, email, uuid>>

\* DEFAULT_PATTERNS with aws_access_key, its first pattern, in front
REGISTRY == <<aws_access_key>> \o DEFAULT_PATTERNS

\* sorted(patterns, key = lambda p: p.priority, reverse = True): descending
\* and stable
RECURSIVE SortedByPriority(_)
SortedByPriority(ps) ==
    IF ps = << >> THEN << >>
    ELSE LET rest == SortedByPriority(SubSeq(ps, 1, Len(ps) - 1))
             p    == ps[Len(ps)]
             n    == Cardinality({i \in 1..Len(rest) : rest[i].priority >= p.priority})
         IN  SubSeq(rest, 1, n) \o <<p>> \o SubSeq(rest, n + 1, Len(rest))

\* patterns.get_patterns_by_priority
get_patterns_by_priority(min_priority) ==
    SortedByPriority(SelectSeq(REGISTRY, LAMBDA p : p.priority >= min_priority))

\* the names of _HIGH_PRIORITY_PATTERNS
HIGH_PRIORITY_PATTERN_NAMES ==
    {"aws_access_key", "aws_secret_key", "aws_session_token", "github_token",
     "github_oauth", "gitlab_token", "slack_token", "slack_webhook",
     "discord_webhook", "private_key_block", "azure_connection_string",
     "gcp_api_key", "stripe_secret_key", "stripe_restricted_key", "npm_token",
     "pypi_token", "sendgrid_key", "twilio_key", "mailchimp_key"}

(***************************************************************************)
(* Tagged text                                                             *)
(*                                                                         *)
(* The engine's working text carries, beside its characters, one mark per  *)
(* character: the number of the collected match whose secret the character *)
(* belongs to or was substituted for, 0 for none.  The marks are history   *)
(* only; no operation of the code reads them.                              *)
(***************************************************************************)
Untagged(text) == [text |-> text, marks |-> Rep(0, Len(text))]

\* replace the spans of tt.text by repl[k]; the new characters take the mark
\* of the first character they replace
Rewrite(tt, spans, repl) ==
    [text  |-> Subst(tt.text, spans, repl, 1, 1),
     marks |-> Subst(tt.marks, spans,
                     [k \in 1..Len(spans) |->
                         Rep(IF spans[k][1] < spans[k][2]
                             THEN tt.marks[spans[k][1]] ELSE 0,
                             Len(repl[k]))], 1, 1)]

\* One rewriting step: text.replace(lit, new) (kind "replace"),
\* re.sub(new, text) ("sub"), or re.sub with a replacement function that
\* puts the first character of the match on both sides of new ("sub_sep")
ReplaceStep(lit, new) == [kind |-> "replace", lit |-> lit, re |-> << >>, new |-> new]
SubStep(re, new) == [kind |-> "sub", lit |-> << >>, re |-> re, new |-> new]
SubSepStep(re, new) == [kind |-> "sub_sep", lit |-> << >>, re |-> re, new |-> new]
SubSteps(res, new) == [k \in 1..Len(res) |-> SubStep(res[k], new)]

\* the spans the step rewrites
StepSpans(step, text) ==
    IF step.kind = "replace" THEN FindLiteral(text, step.lit, 1)
    ELSE MatchSpans(FindIter(step.re, text, 1))

StepRewrite(step, tt, spans) ==
    Rewrite(tt, spans,
            [k \in 1..Len(spans) |->
                IF step.kind = "sub_sep"
                THEN <<tt.text[spans[k][1]]>> \o step.new \o <<tt.text[spans[k][1]]>>
                ELSE step.new])

ApplyStep(step, tt) == StepRewrite(step, tt, StepSpans(step, tt.text))

\* the steps k, k + 1, ... in order (no step changes an empty text)
RECURSIVE ApplySteps(_, _, _)
ApplySteps(steps, k, tt) ==
    IF k > Len(steps) \/ tt.text = << >> THEN tt
    ELSE ApplySteps(steps, k + 1, ApplyStep(steps[k], tt))

\* tt.text.replace(lit, new)
ReplaceT(tt, lit, new) == ApplyStep(ReplaceStep(lit, new), tt)

(***************************************************************************)
(* Path anonymizer (redact/path_anonymizer.py)                             *)
(***************************************************************************)
S_VAR_FOLDERS == <<"/", "v", "a", "r", "/", "f", "o", "l", "d", "e", "r", "s", "/">>
S_TMP_PYTEST == <<"/", "t", "m", "p", "/", "p", "y", "t", "e", "s", "t", "-", "o", "f", "-">>
S_TMP == <<"/", "t", "m", "p", "/">>
S_PRIVATE_VAR_FOLDERS == <<"/", "p", "r", "i", "v", "a", "t", "e", "/", "v", "a", "r", "/", "f", "o", "l", "d", "e", "r", "s", "/">>
S_C_USERS == <<"C", ":", "\\", "U", "s", "e", "r", "s", "\\">>
S_APPDATA_TEMP == <<"\\", "A", "p", "p", "D", "a", "t", "a", "\\", "L", "o", "c", "a", "l", "\\", "T", "e", "m", "p", "\\">>
S_C_WINDOWS_TEMP == <<"C", ":", "\\", "W", "i", "n", "d", "o", "w", "s", "\\", "T", "e", "m", "p", "\\">>
S_RUN_USER == <<"/", "r", "u", "n", "/", "u", "s", "e", "r", "/">>
S_SITE_PACKAGES == <<"s", "i", "t", "e", "-", "p", "a", "c", "k", "a", "g", "e", "s">>
S_DIST_PACKAGES == <<"d", "i", "s", "t", "-", "p", "a", "c", "k", "a", "g", "e", "s">>
S_DOT_VENV == <<".", "v", "e", "n", "v">>
S_VENV == <<"v", "e", "n", "v">>
S_VIRTUALENVS == <<".", "v", "i", "r", "t", "u", "a", "l", "e", "n", "v", "s">>
S_ENVS == <<"e", "n", "v", "s">>
S_LIB == <<"l", "i", "b">>
S_PYTHON == <<"p", "y", "t", "h", "o", "n">>
S_HOME == <<"/", "h", "o", "m", "e", "/">>
S_USERS == <<"/", "U", "s", "e", "r", "s", "/">>
S_WIN_USERS == <<"\\", "U", "s", "e", "r", "s", "\\">>
USER_ALICE == <<"a", "l", "i", "c", "e">>
HOME_ALICE == <<"/", "h", "o", "m", "e", "/", "a", "l", "i", "c", "e">>
PH_PROJECT == <<"<", "P", "R", "O", "J", "E", "C", "T", ">">>
PH_VENV == <<"/", "<", "V", "E", "N", "V", ">", "/">>
PH_SITE_PACKAGES == <<"<", "S", "I", "T", "E", "_", "P", "A", "C", "K", "A", "G", "E", "S", ">">>
PH_TMPDIR == <<"<", "T", "M", "P", "D", "I", "R", ">">>
PH_HOME == <<"~">>
PH_USER == <<"<", "U", "S", "E", "R", ">">>
PH_UID == <<"<", "U", "I", "D", ">">>

Sep    == {"/", "\\"}
NotSep(S) == NotCls(S, 1, -1)

TEMP_PATTERNS ==
    << << Alt(LitSeq(S_VAR_FOLDERS)
              \o << NotSep({"/"}), Lit("/"), NotSep({"/"}), Lit("/"), NotSep({"/"}) >>,
              << >>) >>,
       << Alt(LitSeq(S_TMP_PYTEST) \o << NotSep({"/"}) >>, << >>) >>,
       << Alt(LitSeq(S_TMP) \o << NotSep({"/"} \cup Space) >>, << >>) >>,
       << Alt(LitSeq(S_PRIVATE_VAR_FOLDERS)
              \o << NotSep({"/"}), Lit("/"), NotSep({"/"}), Lit("/"), NotSep({"/"}) >>,
              << >>) >>,
       << Alt(LitSeqI(S_C_USERS) \o << NotSep({"\\"}) >> \o LitSeqI(S_APPDATA_TEMP)
              \o << NotSep({"\\"}) >>, << >>) >>,
       << Alt(LitSeqI(S_C_WINDOWS_TEMP) \o << NotSep({"\\"}) >>, << >>) >>,
       << Alt(LitSeq(S_RUN_USER)
              \o << Cls(Digit, 1, -1), Lit("/"), NotSep({"/"}) >>, << >>) >> >>

SITE_PACKAGES_PATTERN ==
    << Alt(<< Cls(Sep, 1, 1) >> \o LitSeq(S_SITE_PACKAGES) \o << Cls(Sep, 1, 1) >>, << >>),
       Alt(<< Cls(Sep, 1, 1) >> \o LitSeq(S_DIST_PACKAGES) \o << Cls(Sep, 1, 1) >>, << >>) >>

\* [/\\]lib[/\\]python\d+\.\d+[/\\]
LibPython ==
    << Cls(Sep, 1, 1) >> \o LitSeq(S_LIB) \o << Cls(Sep, 1, 1) >> \o LitSeq(S_PYTHON)
    \o << Cls(Digit, 1, -1), Lit("."), Cls(Digit, 1, -1), Cls(Sep, 1, 1) >>

VENV_PATTERNS ==
    << << Alt(<< Cls(Sep, 1, 1) >> \o LitSeq(S_DOT_VENV) \o LibPython, << >>) >>,
       << Alt(<< Cls(Sep, 1, 1) >> \o LitSeq(S_VENV) \o LibPython, << >>) >>,
       << Alt(<< Cls(Sep, 1, 1) >> \o LitSeq(S_VIRTUALENVS)
              \o << Cls(Sep, 1, 1), NotSep(Sep) >> \o LibPython, << >>) >>,
       << Alt(<< Cls(Sep, 1, 1) >> \o LitSeq(S_ENVS)
              \o << Cls(Sep, 1, 1), NotSep(Sep) >> \o LibPython, << >>) >> >>

\* s.replace("/", "\\")
BackSlashed(s) == [i \in 1..Len(s) |-> IF s[i] = "/" THEN "\\" ELSE s[i]]


\* PathAnonymizer._anonymize_home, as the steps it takes
anonymize_home(an) ==
    << ReplaceStep(an.home_dir, PH_HOME) >>
    \o (IF an.platform = "win32"
        THEN << ReplaceStep(BackSlashed(an.home_dir), PH_HOME) >> ELSE << >>)

\* PathAnonymizer._anonymize_username: the four (pattern, replacement) pairs
UsernamePatterns(an) ==
    << << Alt(<< Behind(S_HOME) >> \o LitSeq(an.username) \o << AheadOrEnd({"/"}) >>,
              << >>) >>,
       << Alt(<< Behind(S_USERS) >> \o LitSeq(an.username) \o << AheadOrEnd({"/"}) >>,
              << >>) >>,
       << Alt(<< Behind(S_WIN_USERS) >> \o LitSeq(an.username)
              \o << AheadOrEnd({"\\"}) >>, << >>) >> >>
UidPattern ==
    << Alt(<< Behind(S_RUN_USER), Cls(Digit, 1, -1), AheadOrEnd({"/"}) >>, << >>) >>

anonymize_username(an) ==
    SubSteps(UsernamePatterns(an), PH_USER) \o << SubStep(UidPattern, PH_UID) >>

\* PathAnonymizer._anonymize_temp
anonymize_temp == SubSteps(TEMP_PATTERNS, PH_TMPDIR)

\* PathAnonymizer._anonymize_site_packages: the separator that starts the
\* match is kept on both sides
anonymize_site_packages == << SubSepStep(SITE_PACKAGES_PATTERN, PH_SITE_PACKAGES) >>

\* PathAnonymizer._anonymize_venv
anonymize_venv == SubSteps(VENV_PATTERNS, PH_VENV)

\* the project_root stage of anonymize; project_root = << >> is None
anonymize_project(an) ==
    IF an.project_root = << >> THEN << >>
    ELSE << ReplaceStep(an.project_root, PH_PROJECT) >>
         \o (IF an.platform = "win32"
             THEN << ReplaceStep(BackSlashed(an.project_root), PH_PROJECT) >>
             ELSE << >>)

\* the rewrites with the home directory first
AnonymizeStepsHomeFirst(an) ==
    (IF an.anonymize_home /\ an.home_dir # << >> THEN anonymize_home(an) ELSE << >>)
    \o anonymize_project(an)
    \o (IF an.anonymize_venv THEN anonymize_venv ELSE << >>)
    \o (IF an.anonymize_site_packages THEN anonymize_site_packages ELSE << >>)
    \o (IF an.anonymize_temp THEN anonymize_temp ELSE << >>)
    \o (IF an.anonymize_username /\ an.username # << >>
        THEN anonymize_username(an) ELSE << >>)

\* the steps of PathAnonymizer.anonymize, in the order of the code
AnonymizeSteps(an) ==
    anonymize_project(an)
    \o (IF an.anonymize_venv THEN anonymize_venv ELSE << >>)
    \o (IF an.anonymize_site_packages THEN anonymize_site_packages ELSE << >>)
    \o (IF an.anonymize_temp THEN anonymize_temp ELSE << >>)
    \o (IF an.anonymize_home /\ an.home_dir # << >> THEN anonymize_home(an) ELSE << >>)
    \o (IF an.anonymize_username /\ an.username # << >>
        THEN anonymize_username(an) ELSE << >>)

\* PathAnonymizer.anonymize
anonymize(an, tt) ==
    IF tt.text = << >> THEN tt ELSE ApplySteps(AnonymizeSteps(an), 1, tt)

(***************************************************************************)
(* Redaction engine (redact/engine.py): data                               *)
(***************************************************************************)
MIN_SECRET_LENGTH == 4

\* PatternConfig(); enabled_patterns is << >> for None and <<S>> for the set S
DefaultConfig ==
    [enabled_patterns  |-> << >>,
     disabled_patterns |-> {},
     custom_patterns   |-> << >>,
     min_priority      |-> OPTIONAL,
     redact_emails     |-> TRUE,
     redact_ips        |-> TRUE,
     redact_uuids      |-> FALSE]

\* patterns.create_custom_pattern for a regex source without metacharacters:
\* the source is compiled by _compile, which is re.compile
create_custom_pattern(name, pattern, category, priority, capture_group) ==
    [name |-> name,
     regex |-> [pattern |-> pattern, alts |-> << Alt(LitSeq(pattern), << >>) >>],
     category |-> category,
     priority |-> priority,
     capture_group |-> capture_group]

MAX_PATTERN_LENGTH == 1000

\* engine.compile_pattern_safely: the exception it raises, or "ok"; no
\* function of the package calls it
compile_pattern_safely(pattern) ==
    IF Len(pattern) > MAX_PATTERN_LENGTH THEN "PatternComplexityError" ELSE "ok"

\* RedactionReport()
EmptyReport ==
    [matches |-> << >>, categories |-> << >>, patterns_used |-> {}, warnings |-> << >>]

\* RedactionReport.add
ReportAdd(report, original, token, category, pattern_name) ==
    [report EXCEPT
        !.matches = Append(@, [original |-> original, token |-> token,
                               category |-> category, pattern_name |-> pattern_name,
                               start |-> 0, end |-> 0]),
        !.categories = (category :> (CounterOf(@, category) + 1)) @@ @,
        !.patterns_used = @ \cup {pattern_name}]

\* RedactionReport.get_summary
get_summary(report) == report.categories

\* the warning redact appends for a pattern that timed out
TimeoutWarning(pattern) == <<"Pattern '", pattern.name, "' timed out and was skipped">>

\* RedactionEngine.__post_init__: the pattern list of an engine
EnginePatterns(patterns, cfg) ==
    (IF patterns = << >> THEN DEFAULT_PATTERNS ELSE patterns) \o cfg.custom_patterns

\* the sort key of redact: (p.priority, len(p.regex.pattern))
KeyLess(p, q) ==
    \/ p.priority < q.priority
    \/ p.priority = q.priority /\ Len(p.regex.pattern) < Len(q.regex.pattern)

\* sorted(patterns, key = ..., reverse = True): descending and stable, so p goes
\* behind every pattern whose key is not less than its own
RECURSIVE SortedPatterns(_)
SortedPatterns(ps) ==
    IF ps = << >> THEN << >>
    ELSE LET rest == SortedPatterns(SubSeq(ps, 1, Len(ps) - 1))
             p    == ps[Len(ps)]
             n    == Cardinality({i \in 1..Len(rest) : ~KeyLess(rest[i], p)})
         IN  SubSeq(rest, 1, n) \o <<p>> \o SubSeq(rest, n + 1, Len(rest))

\* the priority floor applied to every category, UUID too
should_apply_floor(cfg, pattern) ==
    /\ pattern.name \notin cfg.disabled_patterns
    /\ cfg.enabled_patterns = << >> \/ pattern.name \in cfg.enabled_patterns[1]
    /\ pattern.category = CAT_EMAIL => cfg.redact_emails
    /\ pattern.category \in {CAT_IP_PRIVATE, CAT_IP_PUBLIC} => cfg.redact_ips
    /\ pattern.category = CAT_UUID => cfg.redact_uuids
    /\ pattern.priority >= cfg.min_priority

\* RedactionEngine._should_apply_pattern
should_apply_pattern(cfg, pattern) ==
    IF pattern.name \in cfg.disabled_patterns THEN FALSE
    ELSE IF cfg.enabled_patterns # << >> /\ pattern.name \notin cfg.enabled_patterns[1]
    THEN FALSE
    ELSE IF pattern.category = CAT_EMAIL /\ ~cfg.redact_emails THEN FALSE
    ELSE IF pattern.category \in {CAT_IP_PRIVATE, CAT_IP_PUBLIC} /\ ~cfg.redact_ips
    THEN FALSE
    ELSE IF pattern.category = CAT_UUID THEN cfg.redact_uuids
    ELSE pattern.priority >= cfg.min_priority

\* the patterns of ps that the loop of redact does not skip, in order
Applicable(cfg, ps) == SelectSeq(ps, LAMBDA p : should_apply_pattern(cfg, p))

\* the span of the secret of match m: match.group(capture_group), or the
\* whole match for capture_group = 0 and on IndexError
SecretSpan(pattern, m) ==
    IF pattern.capture_group > 0 /\ pattern.capture_group <= NumGroups(pattern.regex.alts)
    THEN GroupSpan(pattern.regex.alts, m, pattern.capture_group)
    ELSE <<m.start, m.end>>


\* the loop of _apply_pattern over the matches ms[k..n] of pattern in text:
\* the tokenizer after it and the replacements collected, each with the span
\* of its secret
RECURSIVE Collect(_, _, _, _, _, _)
\* match k gave the replacement r and left the tokenizer tk
CollectNext(r, tk, text, pattern, ms, k, n) ==
    [tk |-> Collect(tk, text, pattern, ms, k + 1, n).tk,
     replacements |-> <<r>> \o Collect(tk, text, pattern, ms, k + 1, n).replacements]
\* match k has its secret at span; t is what tokenize makes of it
CollectToken(span, t, text, pattern, ms, k, n) ==
    CollectNext([secret |-> Slice(text, span[1], span[2]), token |-> t.token,
                 span |-> span],
                t.tk, text, pattern, ms, k, n)
CollectSecret(tk, text, pattern, ms, k, n, span) ==
    IF \/ span[2] - span[1] < MIN_SECRET_LENGTH
       \/ is_token(Slice(text, span[1], span[2]))
    THEN Collect(tk, text, pattern, ms, k + 1, n)
    ELSE CollectToken(span, tokenize(tk, Slice(text, span[1], span[2]), pattern.category),
                      text, pattern, ms, k, n)
Collect(tk, text, pattern, ms, k, n) ==
    IF k > n THEN [tk |-> tk, replacements |-> << >>]
    ELSE CollectSecret(tk, text, pattern, ms, k, n, SecretSpan(pattern, ms[k]))

\* one round of the replacement loop of _apply_pattern; st is the tagged text
\* and the report
ReplaceSecret(st, r, pattern) ==
    IF Contains(st.result.text, r.secret)
    THEN [result |-> ReplaceT(st.result, r.secret, r.token),
          report |-> ReportAdd(st.report, r.secret, r.token, pattern.category,
                               pattern.name)]
    ELSE st

\* the replacement loop of _apply_pattern from replacement k on
RECURSIVE ApplyReplacements(_, _, _, _)
ApplyReplacements(st, reps, k, pattern) ==
    IF k > Len(reps) THEN st
    ELSE ApplyReplacements(ReplaceSecret(st, reps[k], pattern), reps, k + 1, pattern)

\* the marks of the text after the secrets of the collected replacements,
\* numbered base + 1, base + 2, ..., have been marked
MarkSpans(marks, reps, base) ==
    [i \in 1..Len(marks) |->
        IF \E k \in 1..Len(reps) : reps[k].span[1] <= i /\ i < reps[k].span[2]
        THEN base + (CHOOSE k \in 1..Len(reps) :
                         reps[k].span[1] <= i /\ i < reps[k].span[2])
        ELSE marks[i]]

\* _apply_pattern once its matches are collected as c: the tokenizer, the
\* replacements, the text and the report after it
Replaced(c, tt, report, pattern, base) ==
    [tk |-> c.tk,
     replacements |-> c.replacements,
     st |-> ApplyReplacements(
                [result |-> [tt EXCEPT !.marks = MarkSpans(@, c.replacements, base)],
                 report |-> report],
                c.replacements, 1, pattern)]

\* the matches of pattern in text that _apply_pattern iterates over
Matches(pattern, text) == FindIter(pattern.regex.alts, text, 1)

CollectAll(tk, text, pattern, ms) == Collect(tk, text, pattern, ms, 1, Len(ms))

\* RedactionEngine._apply_pattern
apply_pattern(tk, tt, report, pattern, base) ==
    Replaced(CollectAll(tk, tt.text, pattern, Matches(pattern, tt.text)),
             tt, report, pattern, base)

\* what _apply_pattern has done to the tokenizer when the timer signal ends
\* it: n matches handled, or n handled and the tokenize call of the next one
\* begun
Interrupted(c, text, pattern, span) ==
    IF \/ span[2] - span[1] < MIN_SECRET_LENGTH
       \/ is_token(Slice(text, span[1], span[2]))
    THEN c
    ELSE [c EXCEPT !.tk = tokenize_interrupted(@, Slice(text, span[1], span[2]),
                                               pattern.category)]
TimeoutPointsOf(tk, text, pattern, ms) ==
    {Collect(tk, text, pattern, ms, 1, n) : n \in 0..Len(ms)}
    \cup {Interrupted(Collect(tk, text, pattern, ms, 1, n), text, pattern,
                      SecretSpan(pattern, ms[n + 1])) : n \in 0..(Len(ms) - 1)}
TimeoutPoints(tk, text, pattern) ==
    TimeoutPointsOf(tk, text, pattern, Matches(pattern, text))

\* some match of ms is not a token
HasLeak(text, ms) ==
    \E k \in 1..Len(ms) : ~is_token(Slice(text, ms[k].start, ms[k].end))

NamesOf(ps) == [i \in 1..Len(ps) |-> ps[i].name]

\* RedactionEngine.verify_redaction
verify_redaction(ps, text) ==
    NamesOf(SelectSeq(ps, LAMBDA p : /\ p.name \in HIGH_PRIORITY_PATTERN_NAMES
                                     /\ HasLeak(text, Matches(p, text))))

\* the (secret, token) pairs of replacements
Pairs(reps) == {<<reps[k].secret, reps[k].token>> : k \in 1..Len(reps)}

(***************************************************************************)
(* Bytes and JSON as the bundle code uses them                             *)
(*                                                                         *)
(* A byte string is a sequence with one string per byte: an ASCII byte is  *)
(* written as its character, "0xC3" "0xA9" is the UTF-8 encoding of        *)
(* U+00E9, and "0xFF" occurs in no UTF-8 encoding.                         *)
(***************************************************************************)
E_ACUTE == <<"U+00E9">>
E_ACUTE_UTF8 == <<"0xC3", "0xA9">>
NonAsciiBytes == {"0xC3", "0xA9", "0xFF"}

\* every span of spans replaced by new
SubstAll(s, spans, new) == Subst(s, spans, [k \in 1..Len(spans) |-> new], 1, 1)

\* s.replace(old, new)
Replace(s, old, new) == SubstAll(s, FindLiteral(s, old, 1), new)

\* str.encode("utf-8")
Utf8Encode(s) == Replace(s, E_ACUTE, E_ACUTE_UTF8)

\* bytes.decode("utf-8") where it does not raise UnicodeDecodeError
Utf8Decode(b) == Replace(b, E_ACUTE_UTF8, E_ACUTE)

\* bytes.decode("utf-8") returns
Utf8Valid(b) ==
    \A i \in 1..Len(b) :
        /\ b[i] # "0xFF"
        /\ b[i] = "0xC3" => (i < Len(b) /\ b[i + 1] = "0xA9")
        /\ b[i] = "0xA9" => (i > 1 /\ b[i - 1] = "0xC3")

\* Python values as json.loads returns them and json.dumps takes them
None == [t |-> "null"]
JBool(b) == [t |-> "bool", b |-> b]
JInt(n) == [t |-> "int", n |-> n]
JStr(s) == [t |-> "str", s |-> s]
JList(items) == [t |-> "list", items |-> items]
\* a dict, as the sequence of its items [key, val] in insertion order
JDict(items) == [t |-> "dict", items |-> items]
Item(key, val) == [key |-> key, val |-> val]

\* key in d
HasKey(d, key) == \E i \in 1..Len(d.items) : d.items[i].key = key

\* d.get(key, default); of two items with one key json.loads keeps the later
DictGet(d, key, default) ==
    IF HasKey(d, key)
    THEN d.items[CHOOSE i \in 1..Len(d.items) :
                    /\ d.items[i].key = key
                    /\ \A j \in (i + 1)..Len(d.items) : d.items[j].key # key].val
    ELSE default

S_NULL == <<"n", "u", "l", "l">>
S_TRUE == <<"t", "r", "u", "e">>
S_FALSE == <<"f", "a", "l", "s", "e">>
S_U00E9 == <<"\\", "u", "0", "0", "e", "9">>

\* the escapes of json.dumps (ensure_ascii) for the characters of the model
EscapeOf(c) ==
    CASE c = "\"" -> <<"\\", "\"">>
      [] c = "\\" -> <<"\\", "\\">>
      [] c = "\n" -> <<"\\", "n">>
      [] c = "U+00E9" -> S_U00E9
      [] OTHER -> <<c>>

RECURSIVE JsonEscape(_)
JsonEscape(s) == IF s = << >> THEN << >> ELSE EscapeOf(Head(s)) \o JsonEscape(Tail(s))

JsonString(s) == <<"\"">> \o JsonEscape(s) \o <<"\"">>

\* str(n) for any integer n
IntText(n) == IF n < 0 THEN <<"-">> \o Str(0 - n) ELSE Str(n)

\* the line break and indentation json.dumps(indent=2) writes at depth d
Indent(d) == <<"\n">> \o Rep(" ", 2 * d)

\* json.dumps(v, indent=2), for v at nesting depth d
RECURSIVE Dumps(_, _), DumpList(_, _, _), DumpDict(_, _, _)
Dumps(v, d) ==
    CASE v.t = "null" -> S_NULL
      [] v.t = "bool" -> (IF v.b THEN S_TRUE ELSE S_FALSE)
      [] v.t = "int" -> IntText(v.n)
      [] v.t = "str" -> JsonString(v.s)
      [] v.t = "list" ->
           IF v.items = << >> THEN <<"[", "]">>
           ELSE <<"[">> \o DumpList(v.items, 1, d + 1) \o Indent(d) \o <<"]">>
      [] v.t = "dict" ->
           IF v.items = << >> THEN <<"{", "}">>
           ELSE <<"{">> \o DumpDict(v.items, 1, d + 1) \o Indent(d) \o <<"}">>
DumpList(items, k, d) ==
    Indent(d) \o Dumps(items[k], d)
    \o (IF k < Len(items) THEN <<",">> \o DumpList(items, k + 1, d) ELSE << >>)
DumpDict(items, k, d) ==
    Indent(d) \o JsonString(items[k].key) \o <<":", " ">> \o Dumps(items[k].val, d)
    \o (IF k < Len(items) THEN <<",">> \o DumpDict(items, k + 1, d) ELSE << >>)

\* json.loads: a parse ends with a value and the position after it, or fails
\* (JSONDecodeError)
Parsed(val, pos) == [ok |-> TRUE, val |-> val, pos |-> pos]
ParseFail == [ok |-> FALSE, val |-> None, pos |-> 0]

\* the parse r with x put in front of the sequence it read
Prepend(x, r) == IF r.ok THEN [r EXCEPT !.val = <<x>> \o @] ELSE r
\* the parse r of a sequence as the parse of the value Wrap(sequence)
AsStr(r) == IF r.ok THEN [r EXCEPT !.val = JStr(@)] ELSE r
AsList(r) == IF r.ok THEN [r EXCEPT !.val = JList(@)] ELSE r
AsDict(r) == IF r.ok THEN [r EXCEPT !.val = JDict(@)] ELSE r

JsonSpace == {" ", "\n", "\t", "\r"}

\* the first position from pos on that holds no whitespace
RECURSIVE SkipSpace(_, _)
SkipSpace(text, pos) ==
    IF pos > Len(text) \/ text[pos] \notin JsonSpace THEN pos
    ELSE SkipSpace(text, pos + 1)

\* the first position from pos on that holds no digit
RECURSIVE SkipDigits(_, _)
SkipDigits(text, pos) ==
    IF pos > Len(text) \/ text[pos] \notin Digit THEN pos
    ELSE SkipDigits(text, pos + 1)

\* int(s) for a string of digits
RECURSIVE IntOf(_)
IntOf(s) ==
    IF s = << >> THEN 0
    ELSE 10 * IntOf(SubSeq(s, 1, Len(s) - 1))
         + (CHOOSE n \in 0..9 : Str(n) = <<s[Len(s)]>>)

\* the characters of a string literal from pos (behind the opening quote) up
\* to the closing quote
RECURSIVE ParseChars(_, _)
ParseEscape(text, pos) ==
    IF pos > Len(text) THEN ParseFail
    ELSE IF text[pos] \in {"\"", "\\"}
    THEN Prepend(text[pos], ParseChars(text, pos + 1))
    ELSE IF text[pos] = "n" THEN Prepend("\n", ParseChars(text, pos + 1))
    ELSE IF StartsWithAt(text, Tail(S_U00E9), pos)
    THEN Prepend("U+00E9", ParseChars(text, pos + 5))
    ELSE ParseFail
ParseChars(text, pos) ==
    IF pos > Len(text) THEN ParseFail
    ELSE IF text[pos] = "\"" THEN Parsed(<< >>, pos + 1)
    ELSE IF text[pos] = "\\" THEN ParseEscape(text, pos + 1)
    ELSE IF text[pos] \in {"\n", "\t", "\r"} THEN ParseFail
    ELSE Prepend(text[pos], ParseChars(text, pos + 1))

\* an integer literal at pos (the numbers of the model are integers)
ParseDigits(text, pos, end, sign) ==
    IF end = pos \/ (end - pos > 1 /\ text[pos] = "0") THEN ParseFail
    ELSE Parsed(JInt(sign * IntOf(Slice(text, pos, end))), end)
ParseInt(text, pos) ==
    IF text[pos] = "-" THEN ParseDigits(text, pos + 1, SkipDigits(text, pos + 1), 0 - 1)
    ELSE ParseDigits(text, pos, SkipDigits(text, pos), 1)

RECURSIVE ParseValue(_, _), ParseItems(_, _), ParseMembers(_, _)
\* behind an array item x that ended before pos
ItemNext(text, x, pos) ==
    IF pos > Len(text) THEN ParseFail
    ELSE IF text[pos] = "]" THEN Parsed(<<x>>, pos + 1)
    ELSE IF text[pos] = "," THEN Prepend(x, ParseItems(text, SkipSpace(text, pos + 1)))
    ELSE ParseFail
ItemValue(text, v) == IF v.ok THEN ItemNext(text, v.val, SkipSpace(text, v.pos)) ELSE v
\* the items of an array from pos on
ParseItems(text, pos) == ItemValue(text, ParseValue(text, pos))

\* behind an object member m that ended before pos
MemberNext(text, m, pos) ==
    IF pos > Len(text) THEN ParseFail
    ELSE IF text[pos] = "}" THEN Parsed(<<m>>, pos + 1)
    ELSE IF text[pos] = "," THEN Prepend(m, ParseMembers(text, SkipSpace(text, pos + 1)))
    ELSE ParseFail
MemberValue(text, key, v) ==
    IF v.ok THEN MemberNext(text, Item(key, v.val), SkipSpace(text, v.pos)) ELSE v
MemberColon(text, key, pos) ==
    IF pos > Len(text) \/ text[pos] # ":" THEN ParseFail
    ELSE MemberValue(text, key, ParseValue(text, SkipSpace(text, pos + 1)))
MemberKey(text, k) == IF k.ok THEN MemberColon(text, k.val, SkipSpace(text, k.pos)) ELSE k
\* the members of an object from pos on
ParseMembers(text, pos) ==
    IF pos > Len(text) \/ text[pos] # "\"" THEN ParseFail
    ELSE MemberKey(text, ParseChars(text, pos + 1))

\* an array or object whose opening bracket is before pos
ParseList(text, pos) ==
    IF pos <= Len(text) /\ text[pos] = "]" THEN Parsed(JList(<< >>), pos + 1)
    ELSE AsList(ParseItems(text, pos))
ParseDict(text, pos) ==
    IF pos <= Len(text) /\ text[pos] = "}" THEN Parsed(JDict(<< >>), pos + 1)
    ELSE AsDict(ParseMembers(text, pos))

\* the JSON value that starts at pos
ParseValue(text, pos) ==
    IF pos > Len(text) THEN ParseFail
    ELSE IF text[pos] = "{" THEN ParseDict(text, SkipSpace(text, pos + 1))
    ELSE IF text[pos] = "[" THEN ParseList(text, SkipSpace(text, pos + 1))
    ELSE IF text[pos] = "\"" THEN AsStr(ParseChars(text, pos + 1))
    ELSE IF text[pos] \in Digit \cup {"-"} THEN ParseInt(text, pos)
    ELSE IF StartsWithAt(text, S_NULL, pos) THEN Parsed(None, pos + 4)
    ELSE IF StartsWithAt(text, S_TRUE, pos) THEN Parsed(JBool(TRUE), pos + 4)
    ELSE IF StartsWithAt(text, S_FALSE, pos) THEN Parsed(JBool(FALSE), pos + 5)
    ELSE ParseFail

\* json.loads(text): nothing but whitespace may follow the value
WholeText(text, r) ==
    IF r.ok /\ SkipSpace(text, r.pos) = Len(text) + 1 THEN r ELSE ParseFail
Loads(text) == WholeText(text, ParseValue(text, SkipSpace(text, 1)))

(***************************************************************************)
(* Bundle schema (bundle/schema.py)                                        *)
(***************************************************************************)
BUNDLE_VERSION == <<"1", ".", "0">>
\* bugsafe.__version__
VERSION == <<"0", ".", "1", ".", "0">>

\* the field names of the models
K ==
    [metadata |-> <<"m", "e", "t", "a", "d", "a", "t", "a">>,
     version |-> <<"v", "e", "r", "s", "i", "o", "n">>,
     created_at |-> <<"c", "r", "e", "a", "t", "e", "d", "_", "a", "t">>,
     bugsafe_version |-> <<"b", "u", "g", "s", "a", "f", "e", "_", "v", "e", "r", "s", "i", "o", "n">>,
     redaction_salt_hash |-> <<"r", "e", "d", "a", "c", "t", "i", "o", "n", "_", "s", "a", "l", "t", "_", "h", "a", "s", "h">>,
     capture |-> <<"c", "a", "p", "t", "u", "r", "e">>,
     stdout |-> <<"s", "t", "d", "o", "u", "t">>,
     stderr |-> <<"s", "t", "d", "e", "r", "r">>,
     exit_code |-> <<"e", "x", "i", "t", "_", "c", "o", "d", "e">>,
     duration_ms |-> <<"d", "u", "r", "a", "t", "i", "o", "n", "_", "m", "s">>,
     command |-> <<"c", "o", "m", "m", "a", "n", "d">>,
     timed_out |-> <<"t", "i", "m", "e", "d", "_", "o", "u", "t">>,
     truncated |-> <<"t", "r", "u", "n", "c", "a", "t", "e", "d">>,
     traceback |-> <<"t", "r", "a", "c", "e", "b", "a", "c", "k">>,
     exception_type |-> <<"e", "x", "c", "e", "p", "t", "i", "o", "n", "_", "t", "y", "p", "e">>,
     message |-> <<"m", "e", "s", "s", "a", "g", "e">>,
     frames |-> <<"f", "r", "a", "m", "e", "s">>,
     chained |-> <<"c", "h", "a", "i", "n", "e", "d">>,
     environment |-> <<"e", "n", "v", "i", "r", "o", "n", "m", "e", "n", "t">>,
     redaction_report |-> <<"r", "e", "d", "a", "c", "t", "i", "o", "n", "_", "r", "e", "p", "o", "r", "t">>]

\* a datetime of the first minute of 2024-01-01: naive, or aware in UTC
Datetime(second, utc) == [second |-> second, utc |-> utc]
S_MINUTE == <<"2", "0", "2", "4", "-", "0", "1", "-", "0", "1", "T", "0", "0", ":", "0", "0", ":">>

\* the ISO 8601 text of a datetime in model_dump(mode="json")
FormatDatetime(dt) ==
    S_MINUTE \o (IF dt.second < 10 THEN <<"0">> ELSE << >>) \o Str(dt.second)
    \o (IF dt.utc THEN <<"Z">> ELSE << >>)

\* the outcome of validating a value: the value read, or a ValidationError
Valid(val) == [ok |-> TRUE, val |-> val]
Invalid == [ok |-> FALSE, val |-> None]

\* a datetime field given a string: "Z" and "+00:00" both mean UTC
ParseDatetime(s) ==
    LET n == Len(S_MINUTE)
        zone == Slice(s, n + 3, Len(s) + 1)
    IN  IF /\ StartsWith(s, S_MINUTE)
           /\ Len(s) >= n + 2
           /\ IsDigits(Slice(s, n + 1, n + 3))
           /\ IntOf(Slice(s, n + 1, n + 3)) < 60
           /\ zone \in {<< >>, <<"Z">>, <<"+", "0", "0", ":", "0", "0">>}
        THEN Valid(Datetime(IntOf(Slice(s, n + 1, n + 3)), zone # << >>))
        ELSE Invalid

\* the validators of the field types, on the values json.loads gives (of
\* pydantic's lax conversions: bool and digit strings for int, 0 and 1 for
\* bool)
ValidateStr(v) == IF v.t = "str" THEN Valid(v.s) ELSE Invalid
ValidateInt(v) ==
    IF v.t = "int" THEN Valid(v.n)
    ELSE IF v.t = "bool" THEN Valid(IF v.b THEN 1 ELSE 0)
    ELSE IF v.t = "str" /\ IsDigits(v.s) THEN Valid(IntOf(v.s))
    ELSE Invalid
ValidateBool(v) ==
    IF v.t = "bool" THEN Valid(v.b)
    ELSE IF v.t = "int" /\ v.n \in {0, 1} THEN Valid(v.n = 1)
    ELSE Invalid
ValidateDatetime(v) == IF v.t = "str" THEN ParseDatetime(v.s) ELSE Invalid
\* list[str]
ValidateStrList(v) ==
    IF v.t = "list" /\ \A i \in 1..Len(v.items) : v.items[i].t = "str"
    THEN Valid([i \in 1..Len(v.items) |-> v.items[i].s])
    ELSE Invalid
\* dict[str, int]
ValidateIntDict(v) ==
    IF v.t = "dict" /\ \A i \in 1..Len(v.items) : ValidateInt(v.items[i].val).ok
    THEN Valid([i \in 1..Len(v.items) |->
                   Item(v.items[i].key, ValidateInt(v.items[i].val).val)])
    ELSE Invalid

\* a field with a default, and a required field, of the dict d
Field(d, key, validated, default) == IF HasKey(d, key) THEN validated ELSE Valid(default)
Required(d, key, validated) == IF HasKey(d, key) THEN validated ELSE Invalid
Of(d, key) == DictGet(d, key, None)

\* BundleMetadata
MakeMetadata(version, created_at, bugsafe_version, redaction_salt_hash) ==
    IF version.ok /\ created_at.ok /\ bugsafe_version.ok /\ redaction_salt_hash.ok
    THEN Valid([version |-> version.val, created_at |-> created_at.val,
                bugsafe_version |-> bugsafe_version.val,
                redaction_salt_hash |-> redaction_salt_hash.val])
    ELSE Invalid
\* BundleMetadata(): created_at is utcnow()
DefaultMetadata(now) ==
    [version |-> BUNDLE_VERSION, created_at |-> now, bugsafe_version |-> VERSION,
     redaction_salt_hash |-> << >>]
ValidateMetadata(v, now) ==
    IF v.t # "dict" THEN Invalid
    ELSE MakeMetadata(
             Field(v, K.version, ValidateStr(Of(v, K.version)), BUNDLE_VERSION),
             Field(v, K.created_at, ValidateDatetime(Of(v, K.created_at)), now),
             Field(v, K.bugsafe_version, ValidateStr(Of(v, K.bugsafe_version)), VERSION),
             Field(v, K.redaction_salt_hash,
                   ValidateStr(Of(v, K.redaction_salt_hash)), << >>))

\* CaptureOutput
MakeCapture(stdout, stderr, exit_code, duration_ms, command, timed_out, truncated) ==
    IF /\ stdout.ok /\ stderr.ok /\ exit_code.ok /\ duration_ms.ok /\ command.ok
       /\ timed_out.ok /\ truncated.ok
    THEN Valid([stdout |-> stdout.val, stderr |-> stderr.val,
                exit_code |-> exit_code.val, duration_ms |-> duration_ms.val,
                command |-> command.val, timed_out |-> timed_out.val,
                truncated |-> truncated.val])
    ELSE Invalid
DefaultCapture ==
    [stdout |-> << >>, stderr |-> << >>, exit_code |-> 0, duration_ms |-> 0,
     command |-> << >>, timed_out |-> FALSE, truncated |-> FALSE]
ValidateCapture(v) ==
    IF v.t # "dict" THEN Invalid
    ELSE MakeCapture(
             Field(v, K.stdout, ValidateStr(Of(v, K.stdout)), << >>),
             Field(v, K.stderr, ValidateStr(Of(v, K.stderr)), << >>),
             Field(v, K.exit_code, ValidateInt(Of(v, K.exit_code)), 0),
             Field(v, K.duration_ms, ValidateInt(Of(v, K.duration_ms)), 0),
             Field(v, K.command, ValidateStrList(Of(v, K.command)), << >>),
             Field(v, K.timed_out, ValidateBool(Of(v, K.timed_out)), FALSE),
             Field(v, K.truncated, ValidateBool(Of(v, K.truncated)), FALSE))

\* Traceback | None; the tracebacks of the model have no frames and no chain
MakeTraceback(exception_type, message, frames, chained) ==
    IF exception_type.ok /\ message.ok /\ frames.ok /\ chained
    THEN Valid([exception_type |-> exception_type.val, message |-> message.val,
                frames |-> << >>, chained |-> None])
    ELSE Invalid
ValidateTraceback(v) ==
    IF v = None THEN Valid(None)
    ELSE IF v.t # "dict" THEN Invalid
    ELSE MakeTraceback(
             Required(v, K.exception_type, ValidateStr(Of(v, K.exception_type))),
             Required(v, K.message, ValidateStr(Of(v, K.message))),
             Field(v, K.frames,
                   IF Of(v, K.frames) = JList(<< >>) THEN Valid(<< >>) ELSE Invalid,
                   << >>),
             Of(v, K.chained) = None)

\* Environment | None; the bundles of the model have no environment
ValidateEnvironment(v) == IF v = None THEN Valid(None) ELSE Invalid

\* BugBundle
MakeBundle(metadata, capture, traceback, environment, redaction_report) ==
    IF metadata.ok /\ capture.ok /\ traceback.ok /\ environment.ok /\ redaction_report.ok
    THEN Valid([metadata |-> metadata.val, capture |-> capture.val,
                traceback |-> traceback.val, environment |-> environment.val,
                redaction_report |-> redaction_report.val])
    ELSE Invalid

\* BugBundle.model_validate(data), at time now
model_validate(data, now) ==
    IF data.t # "dict" THEN Invalid
    ELSE MakeBundle(
             Field(data, K.metadata, ValidateMetadata(Of(data, K.metadata), now),
                   DefaultMetadata(now)),
             Field(data, K.capture, ValidateCapture(Of(data, K.capture)),
                   DefaultCapture),
             ValidateTraceback(Of(data, K.traceback)),
             ValidateEnvironment(Of(data, K.environment)),
             Field(data, K.redaction_report,
                   ValidateIntDict(Of(data, K.redaction_report)), << >>))

\* model_dump(mode="json") of the parts of a bundle
DumpMetadata(m) ==
    JDict(<<Item(K.version, JStr(m.version)),
            Item(K.created_at, JStr(FormatDatetime(m.created_at))),
            Item(K.bugsafe_version, JStr(m.bugsafe_version)),
            Item(K.redaction_salt_hash, JStr(m.redaction_salt_hash))>>)
DumpCapture(c) ==
    JDict(<<Item(K.stdout, JStr(c.stdout)), Item(K.stderr, JStr(c.stderr)),
            Item(K.exit_code, JInt(c.exit_code)),
            Item(K.duration_ms, JInt(c.duration_ms)),
            Item(K.command, JList([i \in 1..Len(c.command) |-> JStr(c.command[i])])),
            Item(K.timed_out, JBool(c.timed_out)),
            Item(K.truncated, JBool(c.truncated))>>)
DumpTraceback(t) ==
    IF t = None THEN None
    ELSE JDict(<<Item(K.exception_type, JStr(t.exception_type)),
                 Item(K.message, JStr(t.message)),
                 Item(K.frames, JList(<< >>)), Item(K.chained, None)>>)
DumpIntDict(d) == JDict([i \in 1..Len(d) |-> Item(d[i].key, JInt(d[i].val))])

\* to_dict that writes the default capture in place of the bundle's
to_dict_default_capture(bundle) ==
    JDict(<<Item(K.metadata, DumpMetadata(bundle.metadata)),
            Item(K.capture, DumpCapture(DefaultCapture)),
            Item(K.traceback, DumpTraceback(bundle.traceback)),
            Item(K.environment, None),
            Item(K.redaction_report, DumpIntDict(bundle.redaction_report))>>)

\* BugBundle.to_dict
to_dict(bundle) ==
    JDict(<<Item(K.metadata, DumpMetadata(bundle.metadata)),
            Item(K.capture, DumpCapture(bundle.capture)),
            Item(K.traceback, DumpTraceback(bundle.traceback)),
            Item(K.environment, None),
            Item(K.redaction_report, DumpIntDict(bundle.redaction_report))>>)

(***************************************************************************)
(* Bundle container (bundle/writer.py, bundle/reader.py)                   *)
(*                                                                         *)
(* The file at the bundle path is absent, holds bytes that are no ZIP      *)
(* archive, or is an archive: the sequence of its entries [name, data].    *)
(***************************************************************************)
MAX_BUNDLE_SIZE == 52428800
MAX_ATTACHMENT_SIZE == 10485760
MAX_ATTACHMENTS == 20
MANIFEST_FILENAME == <<"m", "a", "n", "i", "f", "e", "s", "t", ".", "j", "s", "o", "n">>
STDOUT_FILENAME == <<"s", "t", "d", "o", "u", "t", ".", "t", "x", "t">>
STDERR_FILENAME == <<"s", "t", "d", "e", "r", "r", ".", "t", "x", "t">>
CHECKSUM_FILENAME == <<"c", "h", "e", "c", "k", "s", "u", "m", ".", "s", "h", "a", "2", "5", "6">>
ATTACHMENTS_DIR == <<"a", "t", "t", "a", "c", "h", "m", "e", "n", "t", "s">>

Absent == [kind |-> "absent", entries |-> << >>]
NotZip == [kind |-> "bytes", entries |-> << >>]
Zip(entries) == [kind |-> "zip", entries |-> entries]
Entry(name, data) == [name |-> name, data |-> data]

\* zf.namelist()
namelist(file) == [i \in 1..Len(file.entries) |-> file.entries[i].name]

\* x in xs, for a list xs
InList(x, xs) == \E i \in 1..Len(xs) : xs[i] = x

\* zf.read(name): of several entries with one name, zipfile reads the last
ZipRead(file, name) ==
    file.entries[CHOOSE i \in 1..Len(file.entries) :
                    /\ file.entries[i].name = name
                    /\ \A j \in (i + 1)..Len(file.entries) :
                          file.entries[j].name # name].data

\* hashlib.sha256(data).hexdigest(), taken to be free of collisions: a text
\* that determines data, and that occurs in a longer text only where it was
\* written as a whole
HexByte(b) ==
    CASE b = "0xC3" -> "c3" [] b = "0xA9" -> "a9" [] b = "0xFF" -> "ff" [] OTHER -> b
sha256_hexdigest(data) ==
    <<"sha256(">> \o [i \in 1..Len(data) |-> HexByte(data[i])] \o <<")sha256">>

\* a checksum that does not depend on the data
compute_checksum_constant(data) == sha256_hexdigest(<< >>)

\* _compute_checksum, of writer.py and of reader.py
compute_checksum(data) == sha256_hexdigest(data)

\* what a call does: it returns a value, or raises an exception
Returns(value) == [raised |-> "none", value |-> value]
Raises(exception) == [raised |-> exception, value |-> None]

\* reader._check_path_safety, with "ok" for a return
check_path_safety(name) ==
    IF Contains(name, <<".", ".">>) THEN "SecurityError"
    ELSE IF StartsWith(name, <<"/">>) \/ StartsWith(name, <<"\\">>) THEN "SecurityError"
    ELSE "ok"

VERSION_MIGRATIONS == {<<"1", ".", "0">>}

\* reader._migrate_bundle: the one migration is the identity
migrate_bundle(data, version) ==
    IF version.t = "str" /\ version.s \in VERSION_MIGRATIONS THEN Returns(data)
    ELSE Raises("BundleVersionError")

\* read_bundle, lines 130-139
read_validated(r) == IF r.ok THEN Returns(r.val) ELSE Raises("BundleSchemaError")
read_migrated(m, now) ==
    IF m.raised # "none" THEN m ELSE read_validated(model_validate(m.value, now))
\* lines 127-128: a list or dict as version cannot be looked up in a dict
read_version(data, version, now) ==
    IF version.t \in {"list", "dict"} THEN Raises("TypeError")
    ELSE read_migrated(migrate_bundle(data, version), now)
\* line 127: only a dict has .get
read_metadata(data, metadata, now) ==
    IF metadata.t # "dict" THEN Raises("AttributeError")
    ELSE read_version(data, DictGet(metadata, K.version, JStr(BUNDLE_VERSION)), now)
read_data(data, now) ==
    IF data.t # "dict" THEN Raises("AttributeError")
    ELSE read_metadata(data, DictGet(data, K.metadata, JDict(<< >>)), now)
\* lines 120-125
read_parsed(r, now) == IF r.ok THEN read_data(r.val, now) ELSE Raises("BundleParseError")
\* lines 118-121
read_manifest(manifest_data, now) ==
    IF Utf8Valid(manifest_data) THEN read_parsed(Loads(Utf8Decode(manifest_data)), now)
    ELSE Raises("UnicodeDecodeError")
\* lines 110-118 with the manifest looked for before the names are scanned
read_archive_manifest_first(file, names, now) ==
    IF ~InList(MANIFEST_FILENAME, names) THEN Raises("BundleCorruptError")
    ELSE IF \E i \in 1..Len(names) : check_path_safety(names[i]) # "ok"
    THEN Raises("SecurityError")
    ELSE read_manifest(ZipRead(file, MANIFEST_FILENAME), now)

\* lines 110-118
read_archive(file, names, now) ==
    IF \E i \in 1..Len(names) : check_path_safety(names[i]) # "ok"
    THEN Raises("SecurityError")
    ELSE IF ~InList(MANIFEST_FILENAME, names) THEN Raises("BundleCorruptError")
    ELSE read_manifest(ZipRead(file, MANIFEST_FILENAME), now)

\* reader.read_bundle, for the file at the path, at time now
read_bundle(file, now) ==
    IF file.kind = "absent" THEN Raises("BundleNotFoundError")
    ELSE IF file.kind # "zip" THEN Raises("BundleCorruptError")
    ELSE read_archive(file, namelist(file), now)

\* expected_checksum in checksum_content
checksum_matches(file) ==
    Contains(Utf8Decode(ZipRead(file, CHECKSUM_FILENAME)),
             compute_checksum(ZipRead(file, MANIFEST_FILENAME)))

\* reader.verify_integrity
verify_archive(file, names) ==
    IF ~InList(MANIFEST_FILENAME, names) THEN Returns(FALSE)
    ELSE IF ~InList(CHECKSUM_FILENAME, names) THEN Returns(TRUE)
    ELSE IF ~Utf8Valid(ZipRead(file, CHECKSUM_FILENAME)) THEN Raises("UnicodeDecodeError")
    ELSE Returns(checksum_matches(file))
verify_integrity(file) ==
    IF file.kind = "absent" THEN Raises("BundleNotFoundError")
    ELSE IF file.kind # "zip" THEN Returns(FALSE)
    ELSE verify_archive(file, namelist(file))

\* writer.ValidationResult
ValidationResult(valid, errors, warnings) ==
    [valid |-> valid, errors |-> errors, warnings |-> warnings]

\* the list xs if P, else the empty list
When(P, xs) == IF P THEN xs ELSE << >>

\* validate_bundle, line 277
suspicious(name) == Contains(name, <<".", ".">>) \/ StartsWith(name, <<"/">>)

\* validate_bundle, lines 253-305
validate_verdict(errors, warnings) ==
    Returns(ValidationResult(errors = << >>, errors, warnings))
validate_archive(file, names, has_manifest, has_checksum) ==
    IF has_manifest /\ has_checksum /\ ~Utf8Valid(ZipRead(file, CHECKSUM_FILENAME))
    THEN Raises("UnicodeDecodeError")
    ELSE IF has_manifest /\ ~Utf8Valid(ZipRead(file, MANIFEST_FILENAME))
    THEN Raises("UnicodeDecodeError")
    ELSE validate_verdict(
             When(~has_manifest, <<"Missing manifest.json">>)
             \o When(has_manifest /\ has_checksum /\ ~checksum_matches(file),
                     <<"Checksum mismatch - bundle may be corrupted">>)
             \o When(has_manifest
                        /\ ~Loads(Utf8Decode(ZipRead(file, MANIFEST_FILENAME))).ok,
                     <<"Invalid JSON in manifest">>)
             \o [i \in 1..Len(SelectSeq(names, suspicious)) |->
                    "Suspicious path in bundle"],
             When(~has_checksum, <<"Missing checksum.sha256">>)
             \o When(Len(SelectSeq(names,
                                   LAMBDA n : StartsWith(n, ATTACHMENTS_DIR \o <<"/">>)))
                        > MAX_ATTACHMENTS,
                     <<"Too many attachments">>))

\* writer.validate_bundle
validate_bundle(file) ==
    IF file.kind = "absent"
    THEN Returns(ValidationResult(FALSE, <<"Bundle not found">>, << >>))
    ELSE IF file.kind # "zip"
    THEN Returns(ValidationResult(FALSE, <<"Invalid ZIP file">>, << >>))
    ELSE validate_archive(file, namelist(file),
                          InList(MANIFEST_FILENAME, namelist(file)),
                          InList(CHECKSUM_FILENAME, namelist(file)))

\* a run of MAX_BUNDLE_SIZE bytes "x", carried as one element of a text or
\* of a byte string
RUN == "x * MAX_BUNDLE_SIZE"

\* len(data) for bytes
ByteLen(data) == Len(data) + Count(data, RUN) * (MAX_BUNDLE_SIZE - 1)

\* create_bundle, lines 129-156: the archive written, or the size error;
\* mkdir tells that line 123 has created the parent directories
write_archive(file, manifest_bytes, checksum_content, stdout, stderr) ==
    IF ByteLen(manifest_bytes) + ByteLen(stdout) + ByteLen(stderr)
          + ByteLen(checksum_content) > MAX_BUNDLE_SIZE
    THEN [raised |-> "BundleSizeError", file |-> file, mkdir |-> TRUE]
    ELSE [raised |-> "none", mkdir |-> TRUE,
          file |-> Zip(<<Entry(MANIFEST_FILENAME, manifest_bytes),
                         Entry(CHECKSUM_FILENAME, checksum_content)>>
                       \o When(stdout # << >>, <<Entry(STDOUT_FILENAME, stdout)>>)
                       \o When(stderr # << >>, <<Entry(STDERR_FILENAME, stderr)>>))]
write_manifest(file, manifest_bytes, capture) ==
    write_archive(file, manifest_bytes,
                  Utf8Encode(compute_checksum(manifest_bytes) \o <<" ", " ">>
                             \o MANIFEST_FILENAME \o <<"\n">>),
                  Utf8Encode(capture.stdout), Utf8Encode(capture.stderr))

\* writer.create_bundle: what it raises, and the file it leaves at the path
create_bundle(bundle, file, overwrite) ==
    IF file.kind # "absent" /\ ~overwrite
    THEN [raised |-> "FileExistsError", file |-> file, mkdir |-> FALSE]
    ELSE write_manifest(file, Utf8Encode(Dumps(to_dict(bundle), 0)), bundle.capture)

(***************************************************************************)
(* Attachments (bundle/writer.py, bundle/reader.py)                        *)
(***************************************************************************)
ALLOWED_EXTENSIONS ==
    {<<".", "t", "x", "t">>, <<".", "l", "o", "g">>, <<".", "y", "a", "m", "l">>,
     <<".", "y", "m", "l">>, <<".", "j", "s", "o", "n">>, <<".", "t", "o", "m", "l">>,
     <<".", "i", "n", "i">>, <<".", "c", "f", "g">>, <<".", "m", "d">>,
     <<".", "r", "s", "t">>}

\* s.rfind(c), 1-based, 0 if c is not in s
RFind(s, c) ==
    IF \E i \in 1..Len(s) : s[i] = c
    THEN CHOOSE i \in 1..Len(s) : s[i] = c /\ \A j \in (i + 1)..Len(s) : s[j] # c
    ELSE 0

\* os.path.basename on POSIX
basename(name) == SubSeq(name, RFind(name, "/") + 1, Len(name))

\* os.path.splitext of a name without "/": <<root, ext>>; dots at the start
\* of the name begin no extension
splitext(name) ==
    LET dot == RFind(name, ".")
    IN  IF dot > 0 /\ \E i \in 1..(dot - 1) : name[i] # "."
        THEN <<SubSeq(name, 1, dot - 1), SubSeq(name, dot, Len(name))>>
        ELSE <<name, << >>>>

\* c.isalnum()
isalnum(c) == c \in Alnum \cup {E_ACUTE[1]}

\* writer._sanitize_filename
sanitize_filename(name) ==
    LET replaced == Replace(basename(name), <<".", ".">>, <<"_">>)
        mapped   == [i \in 1..Len(replaced) |->
                        IF isalnum(replaced[i]) \/ replaced[i] \in {".", "_", "-"}
                        THEN replaced[i] ELSE "_"]
    IN  IF mapped = << >> THEN <<"u", "n", "n", "a", "m", "e", "d">> ELSE mapped

\* f"{base}_{counter}{ext}"
Numbered(parts, counter) == parts[1] \o <<"_">> \o Str(counter) \o parts[2]

\* the name taken as it is given
KeepName(name, existing) == name

\* the number after the count of the existing names, not the smallest free
LastNumber(name, existing) ==
    IF name \notin existing THEN name
    ELSE Numbered(splitext(name), Cardinality(existing) + 1)

\* writer._ensure_unique_name
ensure_unique_name(name, existing) ==
    IF name \notin existing THEN name
    ELSE Numbered(splitext(name),
                  Min({c \in 1..(Cardinality(existing) + 1) :
                          Numbered(splitext(name), c) \notin existing}))

\* add_attachment, lines 207-211: the set `existing'
existing_names(names) ==
    {Replace(names[i], ATTACHMENTS_DIR \o <<"/">>, << >>) :
        i \in {j \in 1..Len(names) : StartsWith(names[j], ATTACHMENTS_DIR \o <<"/">>)}}

\* content is [str, data]: a str, or bytes
Text(data) == [str |-> TRUE, data |-> data]
Bytes(data) == [str |-> FALSE, data |-> data]

\* add_attachment, lines 194-197
content_bytes(content) == IF content.str THEN Utf8Encode(content.data) ELSE content.data

\* the archive opened in mode "w": the attachment is all it holds
write_attachment(file, entries, safe_name, data) ==
    [raised |-> "none", value |-> safe_name,
     file |-> Zip(<<Entry(ATTACHMENTS_DIR \o <<"/">> \o safe_name, data)>>)]

\* add_attachment, lines 205-221: the archive is open in mode "a", which
\* starts a new archive behind bytes that are no archive
append_attachment(file, entries, safe_name, data) ==
    IF Cardinality(existing_names(namelist(Zip(entries)))) >= MAX_ATTACHMENTS
    THEN [raised |-> "AttachmentError", value |-> None, file |-> file]
    ELSE LET final_name == ensure_unique_name(safe_name,
                                              existing_names(namelist(Zip(entries))))
         IN  [raised |-> "none", value |-> final_name,
              file |-> Zip(Append(entries,
                                  Entry(ATTACHMENTS_DIR \o <<"/">> \o final_name, data)))]

\* add_attachment, lines 184-203
add_sanitized(file, safe_name, data) ==
    IF [i \in 1..Len(splitext(safe_name)[2]) |-> LowerOf(splitext(safe_name)[2][i])]
          \notin ALLOWED_EXTENSIONS
    THEN [raised |-> "AttachmentError", value |-> None, file |-> file]
    ELSE IF ByteLen(data) > MAX_ATTACHMENT_SIZE
    THEN [raised |-> "AttachmentError", value |-> None, file |-> file]
    ELSE append_attachment(file, IF file.kind = "zip" THEN file.entries ELSE << >>,
                           safe_name, data)

\* writer.add_attachment: what it raises, the name it returns, and the file
\* it leaves at the path
add_attachment(file, name, content) ==
    IF file.kind = "absent"
    THEN [raised |-> "BundleWriteError", value |-> None, file |-> file]
    ELSE add_sanitized(file, sanitize_filename(name), content_bytes(content))

\* reader.get_attachment, lines 204-216
get_entry(file, attachment_path) ==
    IF ~InList(attachment_path, namelist(file)) THEN Raises("AttachmentNotFoundError")
    ELSE IF ~Utf8Valid(ZipRead(file, attachment_path)) THEN Raises("BundleParseError")
    ELSE Returns(Utf8Decode(ZipRead(file, attachment_path)))

\* reader.get_attachment
get_attachment(file, name) ==
    IF file.kind = "absent" THEN Raises("BundleNotFoundError")
    ELSE IF check_path_safety(name) # "ok" THEN Raises("SecurityError")
    ELSE IF file.kind # "zip" THEN Raises("BundleCorruptError")
    ELSE get_entry(file, ATTACHMENTS_DIR \o <<"/">> \o name)

(***************************************************************************)
(* Redaction engine: one engine and the redact calls made on it            *)
(***************************************************************************)
VARIABLES
    tokenizer,       \* engine.tokenizer: [cache, category_counters]
    config,          \* engine.config
    path_anonymizer, \* engine.path_anonymizer
    patterns,        \* engine.patterns
    last_report,     \* engine._last_report
    pc,              \* "idle", or "patterns" inside the loop of redact
    text,            \* redact: the argument `text'
    result,          \* redact: the local `result', tagged
    queue,           \* redact: the patterns still to apply, in order
    report,          \* redact: the local `report'
    spans,           \* history: the replacements collected in the current call
    calls,           \* history: the calls that have returned
    tokenized,       \* history: the (secret, token) pairs tokenize has returned
    leaks,           \* verify_redaction of the text the last call returned
    timeouts,        \* timer signals still to be delivered
    timer,           \* what _timeout_handler finds: "armed", "unavailable", "refused"
    salt,            \* engine.tokenizer.salt
    failure,         \* the exception that ended the last call of redact, or "none"
    applied,         \* history: the patterns _apply_pattern was called for, this call
    earlier,         \* history: the engine created before this one, and its calls
    file,            \* the file at the bundle path
    origin,          \* history: the bundle create_bundle wrote there, its manifest
    outcome,         \* the last call on the path since the file changed
    tampers,         \* history: the changes made to the written bundle
    dir,             \* the parent directory of the bundle path exists
    adds,            \* history: the calls of add_attachment since the file was put
    args,            \* history: the name and content given to the last call
    session,         \* history: the direct calls of tokenize since the last reset
    listing,         \* the last call of get_patterns_by_priority, and its result
    anonymized       \* the last direct call of anonymize, and its result

engine_vars == <<tokenizer, config, path_anonymizer, patterns, last_report, pc,
                 text, result, queue, report, spans, calls, tokenized, leaks,
                 timeouts, timer, salt, failure, applied, earlier>>
\* what only the creation of an engine sets
creation_vars == <<timer, salt, earlier>>
bundle_vars == <<file, origin, outcome, tampers, dir, adds, args>>
\* what the direct calls of the library functions set
direct_vars == <<session, listing, anonymized>>

\* the texts given to redact
TEXT_PWD_TWO ==
    <<"p", "w", "d", "=", "a", "b", "c", "d", " ", "p", "w", "d", "=", "a",
      "b", "c", "d", "e", "f", "g", "h", "\n">>
TEXT_PWD_MAIL ==
    <<"p", "w", "d", "=", "a", "b", "c", "d", "e", "f", "g", "h", " ", "a",
      "@", "b", ".", "c", "o", " ", "/", "t", "m", "p", "/", "/", "t", "m",
      "p", "/", "a", "\n">>
TEXT_SLACK_ACCENTS ==
    <<"x", "o", "x", "b", "-", "a", "a", "a", "a", "a", "a", "a", "a", "a",
      "a", " ", "x", "o", "x", "b", "-", "b", "b", "b", "b", "b", "b", "b",
      "b", "b", "b", "x", "o", "x", "b", "-", "a", "a", "a", "a", "a", "a",
      "a", "a", "a", "a", "\n", "s", "e", "c", "r", "e", "t", ":", " ", "a",
      "b", "c", "e", "U+0301", " ", "s", "e", "c", "r", "e", "t", ":", " ",
      "a", "b", "c", "U+00E9", "\n">>
\* a secret, then the name of its category as a secret
TEXT_PWD_NAME ==
    <<"p", "w", "d", "=", "a", "b", "c", "d", "e", "f", "g", "h", " ", "p",
      "w", "d", "=", "P", "A", "S", "S", "W", "O", "R", "D", "\n">>
Inputs == {TEXT_PWD_TWO, TEXT_PWD_MAIL, TEXT_SLACK_ACCENTS, TEXT_PWD_NAME}

MaxCalls    == 2    \* redact calls per engine
MaxTimeouts == 1    \* timer signals per engine

\* salts of two tokenizers
SALT_A == "salt A"
SALT_B == "salt B"

\* PathAnonymizer(project_root = None) for user alice on Linux
Anonymizer ==
    [project_root |-> << >>, username |-> USER_ALICE, home_dir |-> HOME_ALICE,
     platform |-> "linux", anonymize_home |-> TRUE, anonymize_username |-> TRUE,
     anonymize_temp |-> TRUE, anonymize_site_packages |-> TRUE,
     anonymize_venv |-> TRUE]

\* no engine was created before this one
NoEarlier == [exists |-> FALSE, config |-> DefaultConfig, patterns |-> << >>,
              calls |-> << >>]

\* no verify_redaction since the last call of redact
NoLeaks == [checked |-> FALSE, names |-> << >>]

\* create_redaction_engine()
EngineInit ==
    /\ config = DefaultConfig
    /\ tokenizer = NewTokenizer
    /\ path_anonymizer = Anonymizer
    /\ patterns = EnginePatterns(<< >>, DefaultConfig)
    /\ last_report = EmptyReport
    /\ pc = "idle"
    /\ text = << >>
    /\ result = Untagged(<< >>)
    /\ queue = << >>
    /\ report = EmptyReport
    /\ spans = << >>
    /\ calls = << >>
    /\ tokenized = {}
    /\ leaks = NoLeaks
    /\ timeouts = MaxTimeouts
    /\ timer = "armed"
    /\ salt = SALT_A
    /\ failure = "none"
    /\ applied = << >>
    /\ earlier = NoEarlier

\* configurations an engine is created with
CFG_UUID_FLOOR == [DefaultConfig EXCEPT !.redact_uuids = TRUE, !.min_priority = CRITICAL]
CFG_NO_EMAIL ==
    [DefaultConfig EXCEPT !.redact_emails = FALSE, !.disabled_patterns = {"slack_token"}]
CFG_ENABLED == [DefaultConfig EXCEPT !.enabled_patterns = << {"password_field", "uuid"} >>]
CFG_CUSTOM ==
    [DefaultConfig EXCEPT !.custom_patterns =
        << create_custom_pattern("long", Rep("a", MAX_PATTERN_LENGTH + 1),
                                 <<"l", "o", "n", "g">>, MEDIUM, 0) >>]
Configs == {DefaultConfig, CFG_UUID_FLOOR, CFG_NO_EMAIL, CFG_ENABLED, CFG_CUSTOM}

\* what _timeout_handler can find: the timer is armed; there is no timer
\* facility (or timeout_ms <= 0); signal.signal refuses the handler
TimerModes == {"armed", "unavailable", "refused"}

\* before any call of redact: create_redaction_engine(config = cfg) where the
\* timer can be armed, or create_redaction_engine() where it cannot; the
\* timer signals are delivered to the engine of Init only
CreateEngine ==
    /\ pc = "idle"
    /\ calls = << >>
    /\ ~earlier.exists
    /\ config = DefaultConfig
    /\ timer = "armed"
    /\ \E cfg \in Configs : \E mode \in TimerModes :
          /\ (cfg = DefaultConfig) # (mode = "armed")
          /\ config' = cfg
          /\ patterns' = EnginePatterns(<< >>, cfg)
          /\ timer' = mode
    /\ timeouts' = 0
    /\ UNCHANGED <<bundle_vars, direct_vars>>
    /\ UNCHANGED <<tokenizer, path_anonymizer, last_report, pc, text, result, queue,
                   report, spans, calls, tokenized, leaks, salt, failure, applied,
                   earlier>>

\* a second engine whose Tokenizer shares the _category_counters dict of the
\* first (a mutable default instead of the default_factory)
CreateTwinSharedCounters ==
    /\ pc = "idle"
    /\ calls # << >>
    /\ ~earlier.exists
    /\ earlier' = [exists |-> TRUE, config |-> config, patterns |-> patterns,
                   calls |-> calls]
    /\ tokenizer' = [NewTokenizer EXCEPT !.category_counters = tokenizer.category_counters]
    /\ salt' = SALT_B
    /\ last_report' = EmptyReport
    /\ calls' = << >>
    /\ tokenized' = {}
    /\ leaks' = NoLeaks
    /\ failure' = "none"
    /\ UNCHANGED <<bundle_vars, direct_vars>>
    /\ UNCHANGED <<config, path_anonymizer, patterns, pc, text, result, queue, report,
                   spans, timeouts, timer, applied>>

\* create_redaction_engine(config = config) once more: a second engine with
\* the patterns and the configuration of the first, and a salt of its own
CreateTwin ==
    /\ pc = "idle"
    /\ calls # << >>
    /\ ~earlier.exists
    /\ earlier' = [exists |-> TRUE, config |-> config, patterns |-> patterns,
                   calls |-> calls]
    /\ tokenizer' = NewTokenizer
    /\ salt' = SALT_B
    /\ last_report' = EmptyReport
    /\ calls' = << >>
    /\ tokenized' = {}
    /\ leaks' = NoLeaks
    /\ failure' = "none"
    /\ UNCHANGED <<bundle_vars, direct_vars>>
    /\ UNCHANGED <<config, path_anonymizer, patterns, pc, text, result, queue, report,
                   spans, timeouts, timer, applied>>

\* redact(text) for empty text: lines 209-210
RedactEmpty ==
    /\ pc = "idle"
    /\ Len(calls) + Len(earlier.calls) < MaxCalls
    /\ calls' = Append(calls, [text |-> << >>, result |-> Untagged(<< >>),
                               report |-> EmptyReport, spans |-> << >>,
                               applied |-> << >>])
    /\ leaks' = NoLeaks
    /\ failure' = "none"
    /\ UNCHANGED <<bundle_vars, direct_vars, creation_vars>>
    /\ UNCHANGED <<tokenizer, config, path_anonymizer, patterns, last_report, pc,
                   text, result, queue, report, spans, tokenized, timeouts,
                   applied>>

\* redact(t), lines 212-219: up to the loop
RedactBegin(t) ==
    /\ pc = "idle"
    /\ Len(calls) + Len(earlier.calls) < MaxCalls
    /\ t # << >>
    /\ pc' = "patterns"
    /\ text' = t
    /\ result' = Untagged(t)
    /\ report' = EmptyReport
    /\ queue' = Applicable(config, SortedPatterns(patterns))
    /\ spans' = << >>
    /\ leaks' = NoLeaks
    /\ failure' = "none"
    /\ applied' = << >>
    /\ UNCHANGED <<bundle_vars, direct_vars, creation_vars>>
    /\ UNCHANGED <<tokenizer, config, path_anonymizer, patterns, last_report, calls,
                   tokenized, timeouts>>

\* redact of fresh input
RedactFresh == \E t \in Inputs : RedactBegin(t)

\* shorter texts, for engines of every configuration
TEXT_PWD == <<"p", "w", "d", "=", "a", "b", "c", "d", "e", "f", "g", "h", "\n">>
TEXT_PYTEST ==
    <<"/", "t", "m", "p", "/", "p", "y", "t", "e", "s", "t", "-", "o", "f", "-", "a",
      "\n", "b", "\n">>
TEXT_MAIL_UUID ==
    <<"a", "@", "b", ".", "c", "o", " ", "0", "1", "2", "3", "4", "5", "6", "7", "-",
      "8", "9", "a", "b", "-", "c", "d", "e", "f", "-", "0", "1", "2", "3", "-", "4",
      "5", "6", "7", "8", "9", "a", "b", "c", "d", "e", "f", "\n">>
ShortInputs == {TEXT_PWD, TEXT_PYTEST, TEXT_MAIL_UUID}

\* redact of a short input
RedactShort == \E t \in ShortInputs : RedactBegin(t)

\* redact of a text an earlier call returned
RedactAgain == \E i \in 1..Len(calls) : RedactBegin(calls[i].result.text)

\* the loop body for a pattern whose _apply_pattern returns: the timer is
\* armed and does not fire, or there is no timer facility
ApplyPattern ==
    /\ pc = "patterns"
    /\ queue # << >>
    /\ timer # "refused"
    /\ \E r \in {apply_pattern(tokenizer, result, report, Head(queue), Len(spans))} :
          /\ tokenizer' = r.tk
          /\ result' = r.st.result
          /\ report' = r.st.report
          /\ spans' = spans \o r.replacements
          /\ tokenized' = tokenized \cup Pairs(r.replacements)
    /\ queue' = Tail(queue)
    /\ applied' = Append(applied, Head(queue).name)
    /\ UNCHANGED <<bundle_vars, direct_vars, creation_vars, failure>>
    /\ UNCHANGED <<config, path_anonymizer, patterns, last_report, pc, text, calls,
                   leaks, timeouts>>

\* the loop body when signal.signal refused the handler (engine.py line 157
\* raises ValueError outside the main thread): the matches are collected
\* under the except clause of line 160, then line 165 reads old_handler,
\* which was never bound, and the UnboundLocalError ends the call of redact
ApplyPatternUnarmed ==
    /\ pc = "patterns"
    /\ queue # << >>
    /\ timer = "refused"
    /\ \E c \in {CollectAll(tokenizer, result.text, Head(queue),
                             Matches(Head(queue), result.text))} :
          /\ tokenizer' = c.tk
          /\ tokenized' = tokenized \cup Pairs(c.replacements)
    /\ applied' = Append(applied, Head(queue).name)
    /\ failure' = "UnboundLocalError"
    /\ pc' = "idle"
    /\ queue' = << >>
    /\ UNCHANGED <<bundle_vars, direct_vars, creation_vars>>
    /\ UNCHANGED <<config, path_anonymizer, patterns, last_report, text, result,
                   report, spans, calls, leaks, timeouts>>

\* the loop body without the except clause of lines 227-230: the
\* RedactionTimeoutError of _apply_pattern ends the call of redact
PatternTimeoutUncaught ==
    /\ pc = "patterns"
    /\ queue # << >>
    /\ timer = "armed"
    /\ timeouts > 0
    /\ timeouts' = timeouts - 1
    /\ \E c \in TimeoutPoints(tokenizer, result.text, Head(queue)) :
          /\ tokenizer' = c.tk
          /\ tokenized' = tokenized \cup Pairs(c.replacements)
    /\ pc' = "idle"
    /\ queue' = << >>
    /\ applied' = Append(applied, Head(queue).name)
    /\ failure' = "RedactionTimeoutError"
    /\ UNCHANGED <<bundle_vars, direct_vars, creation_vars>>
    /\ UNCHANGED <<config, path_anonymizer, patterns, last_report, text, result,
                   report, spans, calls, leaks>>

\* the loop body for a pattern whose _apply_pattern raises
\* RedactionTimeoutError: lines 227-230
PatternTimeout ==
    /\ pc = "patterns"
    /\ queue # << >>
    /\ timer = "armed"
    /\ timeouts > 0
    /\ timeouts' = timeouts - 1
    /\ \E c \in TimeoutPoints(tokenizer, result.text, Head(queue)) :
          /\ tokenizer' = c.tk
          /\ tokenized' = tokenized \cup Pairs(c.replacements)
    /\ report' = [report EXCEPT !.warnings = Append(@, TimeoutWarning(Head(queue)))]
    /\ queue' = Tail(queue)
    /\ applied' = Append(applied, Head(queue).name)
    /\ UNCHANGED <<bundle_vars, direct_vars, creation_vars, failure>>
    /\ UNCHANGED <<config, path_anonymizer, patterns, last_report, pc, text, result,
                   spans, calls, leaks>>

\* redact, lines 232-235: after the loop
RedactReturn ==
    /\ pc = "patterns"
    /\ queue = << >>
    /\ \E out \in {anonymize(path_anonymizer, result)} :
          /\ calls' = Append(calls, [text |-> text, result |-> out,
                                     report |-> report, spans |-> spans,
                                     applied |-> applied])
          /\ result' = out
    /\ last_report' = report
    /\ pc' = "idle"
    /\ UNCHANGED <<bundle_vars, direct_vars, creation_vars, failure, applied>>
    /\ UNCHANGED <<tokenizer, config, path_anonymizer, patterns, text, queue, report,
                   spans, tokenized, leaks, timeouts>>

\* verify_redaction(text) for the text that the last call returned
VerifyRedaction ==
    /\ pc = "idle"
    /\ calls # << >>
    /\ ~leaks.checked
    /\ leaks' = [checked |-> TRUE,
                 names |-> verify_redaction(patterns, calls[Len(calls)].result.text)]
    /\ UNCHANGED <<bundle_vars, direct_vars, creation_vars, failure, applied>>
    /\ UNCHANGED <<tokenizer, config, path_anonymizer, patterns, last_report, pc,
                   text, result, queue, report, spans, calls, tokenized,
                   timeouts>>

EngineNext ==
    \/ RedactEmpty
    \/ RedactFresh
    \/ RedactAgain
    \/ ApplyPattern
    \/ PatternTimeout
    \/ RedactReturn
    \/ VerifyRedaction

(***************************************************************************)
(* Bundle container: one bundle path, the calls made on it, and what else  *)
(* may write the file                                                      *)
(***************************************************************************)
\* manifests that create_bundle does not write
M_NOT_UTF8 == <<"0xFF">>
M_NOT_JSON == <<"{">>
M_LIST == <<"[", "]">>
M_EMPTY == <<"{", "}">>
M_METADATA_LIST == <<"{", "\"", "m", "e", "t", "a", "d", "a", "t", "a", "\"", ":", " ", "[", "]", "}">>
M_VERSION_LIST == <<"{", "\"", "m", "e", "t", "a", "d", "a", "t", "a", "\"", ":", " ", "{", "\"", "v", "e", "r", "s", "i", "o", "n", "\"", ":", " ", "[", "]", "}", "}">>
M_VERSION_2 == <<"{", "\"", "m", "e", "t", "a", "d", "a", "t", "a", "\"", ":", " ", "{", "\"", "v", "e", "r", "s", "i", "o", "n", "\"", ":", " ", "\"", "2", ".", "0", "\"", "}", "}">>
M_CAPTURE_INT == <<"{", "\"", "c", "a", "p", "t", "u", "r", "e", "\"", ":", " ", "5", "}">>
Manifests ==
    {M_NOT_UTF8, M_NOT_JSON, M_LIST, M_EMPTY, M_METADATA_LIST, M_VERSION_LIST,
     M_VERSION_2, M_CAPTURE_INT}

\* checksum files: not UTF-8, of another manifest, and of M_EMPTY
Checksums == {<<"0xFF">>, compute_checksum(M_LIST), compute_checksum(M_EMPTY)}

\* entry names that _check_path_safety refuses
UnsafeNames == {<<".", ".", "/", "x">>, <<"/", "a", "b", "s">>, <<"\\", "a", "b", "s">>, <<"a", ".", ".", "b">>}

\* the entries of archives with safe names
SafeEntries ==
    {<< >>}
    \cup {<<Entry(MANIFEST_FILENAME, m)>> : m \in Manifests}
    \cup {<<Entry(MANIFEST_FILENAME, M_EMPTY), Entry(CHECKSUM_FILENAME, c)>> :
             c \in Checksums}

\* the files that may be found at the path
Files ==
    {Absent, NotZip}
    \cup {Zip(es) : es \in SafeEntries}
    \cup {Zip(<<Entry(n, << >>)>> \o es) : n \in UnsafeNames, es \in SafeEntries}
    \cup {Zip(es \o <<Entry(n, << >>)>>) : n \in UnsafeNames, es \in SafeEntries}

\* the bundles given to create_bundle
B_DEFAULT ==
    [metadata |-> DefaultMetadata(Datetime(5, FALSE)), capture |-> DefaultCapture,
     traceback |-> None, environment |-> None, redaction_report |-> << >>]
B_FAILED ==
    [metadata |-> [version |-> BUNDLE_VERSION, created_at |-> Datetime(30, TRUE),
                   bugsafe_version |-> VERSION, redaction_salt_hash |-> <<"a", "b", "1", "2">>],
     capture |-> [stdout |-> <<"c", "a", "f", "U+00E9", " ", "\"", "x", "\\", "y", "\"", "\n">>, stderr |-> <<"n", "o">>,
                  exit_code |-> 0 - 9, duration_ms |-> 120,
                  command |-> <<<<"l", "s">>, <<"-", "l">>>>, timed_out |-> TRUE,
                  truncated |-> FALSE],
     traceback |-> [exception_type |-> <<"V", "a", "l", "u", "e", "E", "r", "r", "o", "r">>, message |-> <<"b", "a", "d">>,
                    frames |-> << >>, chained |-> None],
     environment |-> None,
     redaction_report |-> <<Item(<<"E", "M", "A", "I", "L">>, 2)>>]
B_VERSION_2 == [B_DEFAULT EXCEPT !.metadata.version = <<"2", ".", "0">>]
\* a capture of MAX_BUNDLE_SIZE bytes of output
B_HUGE == [B_DEFAULT EXCEPT !.capture.stdout = <<RUN>>]
Bundles == {B_DEFAULT, B_FAILED, B_VERSION_2, B_HUGE}

\* the names and contents given to add_attachment
NAME_A == <<"a", ".", "t", "x", "t">>
AttachNames ==
    {NAME_A, <<".", ".", "/", "n", " ", "1", ".", "L", "O", "G">>, <<"a", ".", "e", "x", "e">>}
AttachContents == {Text(E_ACUTE), Bytes(<<"0xFF">>), Text(<<RUN>>)}

\* the names given to get_attachment
GetNames ==
    {NAME_A, <<"a", "_", "1", ".", "t", "x", "t">>, <<".", ".", "/", "x">>, <<"/", "a", "b", "s">>, <<"\\", "a", "b", "s">>,
     <<"%", "2", "e", "%", "2", "e", "/", "x">>, <<"%", "2", "f", "a", "b", "s">>,
     <<"%", "5", "C", "a", "b", "s">>}

\* the values of utcnow()
Clock == {Datetime(1, FALSE), Datetime(2, FALSE)}

MaxTampers == 1    \* changes made to a written bundle behind the writer's back
MaxAdds == 1       \* calls of add_attachment on one file, after those made in a row

\* no bundle written, and no call made since the file last changed
NoOrigin == [created |-> FALSE, bundle |-> None, manifest |-> << >>]
NoOutcome == [op |-> "none", raised |-> "none", value |-> None]
Outcome(op, r) == [op |-> op, raised |-> r.raised, value |-> r.value]
\* read_bundle, validate_bundle, verify_integrity and get_attachment change
\* nothing: a call made after them starts from the state it would have
\* started from before them, so they are the last calls made
ObservingCalls == {"read_bundle", "validate_bundle", "verify_integrity", "get_attachment"}
Unobserved == outcome.op \notin ObservingCalls

NoArgs == [name |-> << >>, content |-> Text(<< >>)]
Args(name, content) == [name |-> name, content |-> content]

BundleInit ==
    /\ file = Absent
    /\ origin = NoOrigin
    /\ outcome = NoOutcome
    /\ tampers = 0
    /\ dir = FALSE
    /\ adds = 0
    /\ args = NoArgs

\* anything but the writer leaves a file at the path, or removes it, before
\* the calls made on the path
PutFile ==
    /\ ~origin.created
    /\ outcome.op = "none"
    /\ \E f \in Files : file' = f
    /\ origin' = NoOrigin
    /\ outcome' = NoOutcome
    /\ tampers' = 0
    /\ dir' = TRUE
    /\ adds' = 0
    /\ args' = NoArgs
    /\ UNCHANGED <<engine_vars, direct_vars>>

\* create_bundle(bundle, path, overwrite=overwrite)
CreateBundle ==
    /\ Unobserved
    /\ \E bundle \in Bundles, overwrite \in BOOLEAN :
          \E r \in {create_bundle(bundle, file, overwrite)} :
              /\ file' = r.file
              /\ dir' = (dir \/ r.mkdir)
              /\ outcome' = [op |-> "create_bundle", raised |-> r.raised,
                             value |-> None]
              /\ IF r.raised = "none"
                 THEN /\ origin' = [created |-> TRUE, bundle |-> bundle,
                                    manifest |-> ZipRead(r.file, MANIFEST_FILENAME)]
                      /\ tampers' = 0
                      /\ adds' = 0
                 ELSE UNCHANGED <<origin, tampers, adds>>
    /\ args' = NoArgs
    /\ UNCHANGED <<engine_vars, direct_vars>>

\* data with the byte at position i changed
FlipByte(data, i) == [data EXCEPT ![i] = IF @ = "X" THEN "Y" ELSE "X"]

\* the bytes a written manifest may be changed to
TamperBytes(data) ==
    ({M_NOT_JSON, M_EMPTY, FlipByte(data, 1), FlipByte(data, Len(data)),
      data \o <<"\n">>}) \ {data}

\* the manifest.json entries of a written bundle are overwritten
OverwriteManifest ==
    /\ Unobserved
    /\ origin.created
    /\ tampers < MaxTampers
    /\ adds = 0
    /\ existing_names(namelist(file)) = {}
    /\ \E data \in TamperBytes(ZipRead(file, MANIFEST_FILENAME)) :
          file' = Zip([i \in 1..Len(file.entries) |->
                          IF file.entries[i].name = MANIFEST_FILENAME
                          THEN Entry(MANIFEST_FILENAME, data)
                          ELSE file.entries[i]])
    /\ tampers' = tampers + 1
    /\ outcome' = NoOutcome
    /\ args' = NoArgs
    /\ UNCHANGED <<origin, dir, adds, engine_vars, direct_vars>>

\* a second entry named manifest.json is appended to a written bundle
AppendManifest ==
    /\ Unobserved
    /\ origin.created
    /\ tampers < MaxTampers
    /\ adds = 0
    /\ existing_names(namelist(file)) = {}
    /\ \E data \in TamperBytes(ZipRead(file, MANIFEST_FILENAME)) :
          file' = Zip(Append(file.entries, Entry(MANIFEST_FILENAME, data)))
    /\ tampers' = tampers + 1
    /\ outcome' = NoOutcome
    /\ args' = NoArgs
    /\ UNCHANGED <<origin, dir, adds, engine_vars, direct_vars>>

\* read_bundle(path)
ReadBundle ==
    /\ Unobserved
    /\ \E now \in Clock : outcome' = Outcome("read_bundle", read_bundle(file, now))
    /\ args' = NoArgs
    /\ UNCHANGED <<file, origin, tampers, dir, adds, engine_vars, direct_vars>>

\* validate_bundle(path)
ValidateBundle ==
    /\ Unobserved
    /\ outcome' = Outcome("validate_bundle", validate_bundle(file))
    /\ args' = NoArgs
    /\ UNCHANGED <<file, origin, tampers, dir, adds, engine_vars, direct_vars>>

\* verify_integrity(path)
VerifyIntegrity ==
    /\ Unobserved
    /\ outcome' = Outcome("verify_integrity", verify_integrity(file))
    /\ args' = NoArgs
    /\ UNCHANGED <<file, origin, tampers, dir, adds, engine_vars, direct_vars>>

\* add_attachment(path, name, content), on a written bundle or on a file
\* that is no archive
AddAttachment ==
    /\ Unobserved
    /\ adds < MaxAdds
    /\ tampers = 0
    /\ origin.created \/ file.kind # "zip"
    /\ \E name \in AttachNames, content \in AttachContents :
          \E r \in {add_attachment(file, name, content)} :
              /\ file' = r.file
              /\ outcome' = Outcome("add_attachment", r)
              /\ args' = Args(name, content)
    /\ adds' = adds + 1
    /\ UNCHANGED <<origin, tampers, dir, engine_vars, direct_vars>>

\* the file after n calls add_attachment(path, name, content) in a row
RECURSIVE AddTimes(_, _, _, _)
AddTimes(f, name, content, n) ==
    IF n = 0 THEN f
    ELSE AddTimes(add_attachment(f, name, content).file, name, content, n - 1)

\* a client attaches the same text, under the same name, n times in a row to
\* a bundle just written
AttachMany ==
    /\ Unobserved
    /\ origin.created
    /\ tampers = 0
    /\ adds = 0
    /\ existing_names(namelist(file)) = {}
    /\ \E n \in {1, MAX_ATTACHMENTS - 1, MAX_ATTACHMENTS} :
          file' = AddTimes(file, NAME_A, Text(E_ACUTE), n)
    /\ outcome' = NoOutcome
    /\ args' = NoArgs
    /\ UNCHANGED <<origin, tampers, dir, adds, engine_vars, direct_vars>>

\* get_attachment(path, name)
GetAttachment ==
    /\ Unobserved
    /\ origin.created \/ file.kind # "zip"
    /\ \E name \in GetNames :
          /\ outcome' = Outcome("get_attachment", get_attachment(file, name))
          /\ args' = Args(name, Text(<< >>))
    /\ UNCHANGED <<file, origin, tampers, dir, adds, engine_vars, direct_vars>>

BundleNext ==
    \/ PutFile
    \/ CreateBundle
    \/ OverwriteManifest
    \/ AppendManifest
    \/ ReadBundle
    \/ ValidateBundle
    \/ VerifyIntegrity
    \/ AddAttachment
    \/ AttachMany
    \/ GetAttachment

(***************************************************************************)
(* Direct calls of the library: a Tokenizer used on its own, the pattern   *)
(* registry, a PathAnonymizer with a project root                          *)
(***************************************************************************)
\* the secrets given to tokenize: plain, with a leading blank, blank, and two
\* that are longer than MAX_SECRET_LENGTH once stripped or before
S_ABCD == <<"a", "b", "c", "d">>
S_ABCD_SP == <<" ", "a", "b", "c", "d">>
S_WXYZ == <<"w", "x", "y", "z">>
S_BLANK == <<" ">>
S_LONG_B == Rep("a", MAX_SECRET_LENGTH - 1) \o <<" ", "b">>
S_LONG_SP == Rep("a", MAX_SECRET_LENGTH - 1) \o <<" ">>
Secrets == {S_ABCD, S_ABCD_SP, S_WXYZ, S_BLANK, S_LONG_B, S_LONG_SP}

\* the categories given to tokenize
Categories == {<<"a", "w", "s", " ", "k", "e", "y">>, <<"E", "M", "A", "I", "L">>}

MaxTokenize == 3    \* direct calls of tokenize between two resets

NoListing == [called |-> FALSE, min_priority |-> 0, result |-> << >>]
NoAnonymized == [called |-> FALSE, anonymizer |-> Anonymizer, text |-> << >>,
                 result |-> << >>]

DirectInit ==
    /\ session = << >>
    /\ listing = NoListing
    /\ anonymized = NoAnonymized

\* the Tokenizer, the registry and the PathAnonymizer share nothing: each
\* behaviour calls one of them
Untouched == session = << >> /\ ~listing.called /\ ~anonymized.called

\* the floors given to get_patterns_by_priority
Floors == {DISABLED, OPTIONAL, MEDIUM, CRITICAL}

\* get_patterns_by_priority(min_priority)
ListPatterns ==
    /\ pc = "idle"
    /\ calls = << >>
    /\ Untouched \/ listing.called
    /\ \E m \in Floors :
          listing' = [called |-> TRUE, min_priority |-> m,
                      result |-> get_patterns_by_priority(m)]
    /\ UNCHANGED <<engine_vars, bundle_vars, session, anonymized>>

\* tokenizer.tokenize(secret, category) on a Tokenizer that no engine uses
Tokenize ==
    /\ pc = "idle"
    /\ calls = << >>
    /\ ~listing.called /\ ~anonymized.called
    /\ Len(session) < MaxTokenize
    /\ \E secret \in Secrets, category \in Categories :
          \E r \in {tokenize(tokenizer, secret, category)} :
              /\ tokenizer' = r.tk
              /\ session' = Append(session, [secret |-> secret, category |-> category,
                                              token |-> r.token])
    /\ UNCHANGED <<bundle_vars, creation_vars, listing, anonymized>>
    /\ UNCHANGED <<config, path_anonymizer, patterns, last_report, pc, text, result,
                   queue, report, spans, calls, tokenized, leaks, timeouts, failure,
                   applied>>

\* tokenizer.reset()
ResetTokenizer ==
    /\ pc = "idle"
    /\ calls = << >>
    /\ session # << >>
    /\ tokenizer' = NewTokenizer
    /\ salt' = IF salt = SALT_A THEN SALT_B ELSE SALT_A
    /\ session' = << >>
    /\ UNCHANGED <<bundle_vars, timer, earlier, listing, anonymized>>
    /\ UNCHANGED <<config, path_anonymizer, patterns, last_report, pc, text, result,
                   queue, report, spans, calls, tokenized, leaks, timeouts, failure,
                   applied>>

\* the project roots given to PathAnonymizer: under the home directory and
\* outside it
ROOT_IN_HOME == HOME_ALICE \o <<"/", "p", "r", "o", "j">>
ROOT_OUTSIDE == <<"/", "s", "r", "v", "/", "p">>
ProjectRoots == {ROOT_IN_HOME, ROOT_OUTSIDE}

\* PathAnonymizer(project_root = root, anonymize_venv = v,
\* anonymize_site_packages = sp) for user alice on Linux
Anonymizers ==
    {[Anonymizer EXCEPT !.project_root = root, !.anonymize_venv = v,
                        !.anonymize_site_packages = sp] :
        root \in ProjectRoots, v \in BOOLEAN, sp \in BOOLEAN}

\* a module installed in a virtual environment, below the directory given
VENV_DIR == <<"/">> \o S_DOT_VENV \o <<"/">> \o S_LIB \o <<"/">> \o S_PYTHON
            \o <<"3", ".", "1", "/">>
MODULE_FILE == <<"p", "k", "g", "/", "x", ".", "p", "y">>
Installed(parent) == parent \o VENV_DIR \o S_SITE_PACKAGES \o <<"/">> \o MODULE_FILE

\* the texts given to anonymize
Paths == {Installed(ROOT_IN_HOME), Installed(ROOT_OUTSIDE), Installed(HOME_ALICE),
          ROOT_IN_HOME \o <<"/">> \o MODULE_FILE, << >>}

\* PathAnonymizer(...).anonymize(text)
Anonymize ==
    /\ pc = "idle"
    /\ calls = << >>
    /\ Untouched \/ anonymized.called
    /\ \E an \in Anonymizers, path \in Paths :
          anonymized' = [called |-> TRUE, anonymizer |-> an, text |-> path,
                         result |-> anonymize(an, Untagged(path)).text]
    /\ UNCHANGED <<engine_vars, bundle_vars, session, listing>>

vars == <<engine_vars, bundle_vars, direct_vars>>
Init == EngineInit /\ BundleInit /\ DirectInit
Next == EngineNext
Spec == Init /\ [][Next]_vars

\* the bundle container alone, the engine idle
NextBundle == BundleNext
SpecBundle == Init /\ [][NextBundle]_vars

\* engines of every configuration, with and without a timer, and their twins
NextEngines ==
    \/ CreateEngine
    \/ CreateTwin
    \/ RedactShort
    \/ ApplyPattern
    \/ ApplyPatternUnarmed
    \/ PatternTimeout
    \/ RedactReturn
SpecEngines == Init /\ [][NextEngines]_vars

\* the library functions called directly
NextDirect ==
    \/ Tokenize
    \/ ResetTokenizer
    \/ ListPatterns
    \/ Anonymize
SpecDirect == Init /\ [][NextDirect]_vars

(***************************************************************************)
(* Properties of the redaction engine                                      *)
(***************************************************************************)
\* the calls that returned without a timeout warning
Clean(i) == calls[i].report.warnings = << >>

\* the characters of tt that stand where replacement number k was matched
RECURSIVE Carried(_, _, _)
Carried(tt, k, i) ==
    IF i > Len(tt.text) THEN << >>
    ELSE (IF tt.marks[i] = k THEN <<tt.text[i]>> ELSE << >>) \o Carried(tt, k, i + 1)

\* C1: redaction is idempotent: a call of redact on the text that an earlier
\* call on the same engine returned gives that text back unchanged (here for
\* calls in which no pattern timed out)
C1_Idempotent ==
    \A j \in 1..Len(calls) : \A i \in 1..(j - 1) :
        (Clean(i) /\ Clean(j) /\ calls[j].text = calls[i].result.text)
            => calls[j].result.text = calls[j].text

\* C2: leak-freedom: verify_redaction of the text that redact returned, on
\* the same engine, is the empty list (here for a call in which no pattern
\* timed out)
C2_LeakFree ==
    (leaks.checked /\ Clean(Len(calls))) => leaks.names = << >>

\* C3: correlation: when the same secret is matched at several positions, in
\* one call or in several calls on the same engine, the returned texts carry
\* the same characters at all of those positions (here for calls in which no
\* pattern timed out)
C3_Correlation ==
    \A i \in 1..Len(calls) : \A j \in 1..Len(calls) :
        \A a \in 1..Len(calls[i].spans) : \A b \in 1..Len(calls[j].spans) :
            (Clean(i) /\ Clean(j) /\ calls[i].spans[a].secret = calls[j].spans[b].secret)
                => Carried(calls[i].result, a, 1) = Carried(calls[j].result, b, 1)

C10_TimeoutNotFatal ==
    [][timeouts' # timeouts =>
          /\ result' = result
          /\ report'.matches = report.matches
          /\ report'.categories = report.categories
          /\ report'.warnings = Append(report.warnings, TimeoutWarning(Head(queue)))
          /\ queue' = Tail(queue)
          /\ pc' = "patterns"]_vars

\* a call has returned in which password_field timed out with its secret in
\* the text, the secret is still in the returned text, and the later pattern
\* email was applied and reported
C10_Witness ==
    \E i \in 1..Len(calls) :
        /\ calls[i].text = TEXT_PWD_MAIL
        /\ calls[i].report.warnings = <<TimeoutWarning(password_field)>>
        /\ Contains(calls[i].result.text, <<"a", "b", "c", "d", "e", "f", "g", "h">>)
        /\ \E m \in 1..Len(calls[i].report.matches) :
              calls[i].report.matches[m].pattern_name = email.name

(***************************************************************************)
(* Properties of the bundle container                                      *)
(***************************************************************************)
\* an entry name that contains "..", or begins with "/" or "\"
Traversal(name) ==
    \/ \E i \in 1..(Len(name) - 1) : name[i] = "." /\ name[i + 1] = "."
    \/ (name # << >> /\ name[1] \in {"/", "\\"})

\* C5: read_bundle raises the Security error whenever some entry name of an
\* archive that opens contains ".." or begins with "/" or "\", wherever the
\* entry is and whatever the manifest is like
C5_SecurityFirst ==
    (/\ outcome.op = "read_bundle"
     /\ file.kind = "zip"
     /\ \E i \in 1..Len(file.entries) : Traversal(file.entries[i].name))
        => outcome.raised = "SecurityError"

\* read_bundle raised the Security error for an archive whose one unsafe
\* name is that of its last entry and whose manifest is not valid for the
\* schema
C5_Witness ==
    /\ outcome.op = "read_bundle"
    /\ outcome.raised = "SecurityError"
    /\ file = Zip(<<Entry(MANIFEST_FILENAME, M_CAPTURE_INT), Entry(<<"\\", "a", "b", "s">>, << >>)>>)

\* C6: integrity detection: once the bytes read back as manifest.json differ
\* from those create_bundle wrote (the entry overwritten, or a second entry
\* of that name appended), verify_integrity returns false
C6_TamperDetected ==
    (/\ outcome.op = "verify_integrity"
     /\ origin.created
     /\ ZipRead(file, MANIFEST_FILENAME) # origin.manifest)
        => (outcome.raised = "none" /\ outcome.value = FALSE)

\* verify_integrity returned false for a written bundle to which a second
\* manifest.json was appended
C6_Witness ==
    /\ outcome.op = "verify_integrity"
    /\ outcome.raised = "none"
    /\ outcome.value = FALSE
    /\ origin.created
    /\ file.entries[1] = Entry(MANIFEST_FILENAME, origin.manifest)
    /\ ZipRead(file, MANIFEST_FILENAME) # origin.manifest

C8_StructuredErrors ==
    outcome.op = "read_bundle"
        => outcome.raised \in {"none", "BundleNotFoundError", "BundleCorruptError",
                               "SecurityError", "BundleParseError",
                               "BundleVersionError", "BundleSchemaError"}

\* C9: validate_bundle never raises: it returns a ValidationResult whose
\* valid is true exactly when its error list is empty
C9_NeverRaises ==
    outcome.op = "validate_bundle"
        => /\ outcome.raised = "none"
           /\ outcome.value.valid <=> (outcome.value.errors = << >>)

(***************************************************************************)
(* Properties of engines of every configuration                            *)
(***************************************************************************)
\* C11: when the per-pattern timer cannot be armed (no timer facility, or
\* the signal handler refused), no call of redact ends with an exception and
\* no report carries a timeout warning
C11_UnarmedTransparent ==
    timer # "armed" =>
        /\ failure = "none"
        /\ \A i \in 1..Len(calls) : calls[i].report.warnings = << >>

(***************************************************************************)
(* Properties of the attachments of a bundle                               *)
(***************************************************************************)
\* the names of the entries of the archive under attachments/, in order
AttachmentEntries(f) ==
    SelectSeq(namelist(f), LAMBDA n : StartsWith(n, ATTACHMENTS_DIR \o <<"/">>))

\* no two entries of s are equal
Distinct(s) == \A i, j \in 1..Len(s) : i # j => s[i] # s[j]

\* the step is a call of add_attachment
AddStep == adds' = adds + 1

\* C12: in a bundle that create_bundle wrote and add_attachment extended,
\* the entries under attachments/ are pairwise distinct and at most
\* MAX_ATTACHMENTS, and a call of add_attachment on a bundle that holds
\* MAX_ATTACHMENTS of them raises AttachmentError and leaves the file as it was
C12_AttachmentsBounded ==
    /\ [](origin.created /\ tampers = 0 =>
              /\ Distinct(AttachmentEntries(file))
              /\ Len(AttachmentEntries(file)) <= MAX_ATTACHMENTS)
    /\ [][AddStep /\ origin.created
             /\ Len(AttachmentEntries(file)) >= MAX_ATTACHMENTS =>
                 outcome'.raised = "AttachmentError" /\ file' = file]_vars

\* C12 witness: the twenty-first attachment of a written bundle, of an
\* allowed name and size, has been refused
C12_Witness ==
    /\ origin.created
    /\ outcome.op = "add_attachment"
    /\ outcome.raised = "AttachmentError"
    /\ args = Args(NAME_A, Text(E_ACUTE))
    /\ Len(AttachmentEntries(file)) = MAX_ATTACHMENTS
    /\ Distinct(AttachmentEntries(file))

\* the entries of the archive at the path, none if it is no archive
EntriesOf(f) == IF f.kind = "zip" THEN f.entries ELSE << >>

\* what a call of add_attachment leaves behind: after a success one entry
\* more, attachments/<returned name> with the bytes of the content, behind
\* the entries there were; after a failure the file as it was; and either way
\* read_bundle and verify_integrity return what they returned before
AddChangesAttachmentsOnly ==
    /\ IF outcome'.raised = "none"
       THEN file' = Zip(Append(EntriesOf(file),
                               Entry(ATTACHMENTS_DIR \o <<"/">> \o outcome'.value,
                                     content_bytes(args'.content))))
       ELSE file' = file
    /\ \A now \in Clock : read_bundle(file', now) = read_bundle(file, now)
    /\ verify_integrity(file') = verify_integrity(file)

\* get_attachment returns the content given to the call of add_attachment
\* that has just succeeded
ContentReturned ==
    /\ get_attachment(file', outcome'.value).raised = "none"
    /\ get_attachment(file', outcome'.value).value = args'.content.data

\* C13 as stated: add_attachment changes nothing but the attachment set, and
\* get_attachment returns the content of the added entry unchanged,
\* whatever the content
C13_AttachmentOnly ==
    [][AddStep => /\ AddChangesAttachmentsOnly
                  /\ outcome'.raised = "none" => ContentReturned]_vars

\* C13 amended: add_attachment changes nothing but the attachment set, and
\* get_attachment returns the content of the added entry unchanged when the
\* content was given as text
C13_TextAttachmentOnly ==
    [][AddStep => /\ AddChangesAttachmentsOnly
                  /\ outcome'.raised = "none" /\ args'.content.str => ContentReturned]_vars

\* C13 witness: a text with a non-ASCII character has been attached to a
\* written bundle under a name that was taken, and get_attachment returns it
C13_Witness ==
    /\ origin.created
    /\ outcome.op = "add_attachment"
    /\ outcome.raised = "none"
    /\ outcome.value = <<"a", "_", "1", ".", "t", "x", "t">>
    /\ args.content = Text(E_ACUTE)
    /\ get_attachment(file, outcome.value).raised = "none"
    /\ get_attachment(file, outcome.value).value = E_ACUTE
    /\ Len(AttachmentEntries(file)) = 2

(***************************************************************************)
(* Properties of create_bundle, verify_integrity and get_attachment        *)
(***************************************************************************)
\* C14: a call of create_bundle that raises FileExistsError or
\* BundleSizeError has written nothing: the file at the path is as it was,
\* and no directory has been created
C14_FailsBeforeWrite ==
    [][outcome'.op = "create_bundle"
           /\ outcome'.raised \in {"FileExistsError", "BundleSizeError"} =>
               file' = file /\ dir' = dir]_vars

\* the archive opens, manifest.json is present, and checksum.sha256 is absent
\* or holds the SHA-256 hex digest of the manifest bytes
Intact(f) ==
    /\ f.kind = "zip"
    /\ InList(MANIFEST_FILENAME, namelist(f))
    /\ \/ ~InList(CHECKSUM_FILENAME, namelist(f))
       \/ Contains(ZipRead(f, CHECKSUM_FILENAME),
                   Utf8Encode(compute_checksum(ZipRead(f, MANIFEST_FILENAME))))

\* C15: for an existing file verify_integrity raises nothing, and returns
\* true exactly when the archive opens, manifest.json is present and
\* checksum.sha256 is absent or contains the digest of the manifest bytes
C15_IntegrityVerdict ==
    outcome.op = "verify_integrity" /\ file.kind # "absent" =>
        /\ outcome.raised = "none"
        /\ outcome.value = Intact(file)

\* urllib.parse.unquote, for the escapes of the dot and of the separators
PercentEscapes ==
    {<<<<"%", "2", "e">>, <<".">>>>, <<<<"%", "2", "E">>, <<".">>>>,
     <<<<"%", "2", "f">>, <<"/">>>>, <<<<"%", "2", "F">>, <<"/">>>>,
     <<<<"%", "5", "c">>, <<"\\">>>>, <<<<"%", "5", "C">>, <<"\\">>>>}
RECURSIVE Unquote(_)
Unquote(name) ==
    IF name = << >> THEN << >>
    ELSE IF \E e \in PercentEscapes : StartsWith(name, e[1])
    THEN (CHOOSE e \in PercentEscapes : StartsWith(name, e[1]))[2]
             \o Unquote(SubSeq(name, 4, Len(name)))
    ELSE <<Head(name)>> \o Unquote(Tail(name))

\* C16: on an existing file, get_attachment raises SecurityError for every
\* name that contains "..", starts with "/" or "\", or is the URL-encoding
\* of such a name
C16_TraversalRefused ==
    outcome.op = "get_attachment" /\ file.kind # "absent"
        /\ (Traversal(args.name) \/ Traversal(Unquote(args.name))) =>
            outcome.raised = "SecurityError"

\* the toggle of cfg switches the category off
SwitchedOff(cfg, category) ==
    \/ category = CAT_EMAIL /\ ~cfg.redact_emails
    \/ category \in {CAT_IP_PRIVATE, CAT_IP_PUBLIC} /\ ~cfg.redact_ips
    \/ category = CAT_UUID /\ ~cfg.redact_uuids

\* C17: in every call of redact that has returned, a pattern of the engine
\* has been applied if and only if its name is not in the disable-list, no
\* enable-list is set or its name is in it, its category is not switched off
\* by the email, IP or UUID toggle, and its category is UUID or its priority
\* is at least min_priority
C17_AppliedIffSelected ==
    \A i \in 1..Len(calls) : \A k \in 1..Len(patterns) :
        (patterns[k].name \in {calls[i].applied[n] : n \in 1..Len(calls[i].applied)})
        <=> /\ patterns[k].name \notin config.disabled_patterns
            /\ \/ config.enabled_patterns = << >>
               \/ patterns[k].name \in config.enabled_patterns[1]
            /\ ~SwitchedOff(config, patterns[k].category)
            /\ \/ patterns[k].category = CAT_UUID /\ config.redact_uuids
               \/ patterns[k].priority >= config.min_priority

\* C17 witness: an engine with the UUID toggle on and a priority floor above
\* the priority of the uuid pattern has applied that pattern, and not the
\* email pattern, to a text with a mail address and a UUID
C17_Witness ==
    /\ config = CFG_UUID_FLOOR
    /\ calls # << >>
    /\ calls[1].text = TEXT_MAIL_UUID
    /\ \E k \in 1..Len(patterns) :
          /\ patterns[k].name = "uuid"
          /\ patterns[k].priority < config.min_priority
    /\ \E n \in 1..Len(calls[1].applied) : calls[1].applied[n] = "uuid"
    /\ \A n \in 1..Len(calls[1].applied) : calls[1].applied[n] # "email"

\* C18: no pattern built from a regex source longer than MAX_PATTERN_LENGTH
\* characters is in the registry of an engine
C18_LongSourceRejected ==
    \A k \in 1..Len(patterns) : Len(patterns[k].regex.pattern) <= MAX_PATTERN_LENGTH

\* C19: the text returned by a call of redact holds exactly as many newline
\* characters as the text given to it
C19_NewlinesPreserved ==
    \A i \in 1..Len(calls) :
        Count(calls[i].result.text, "\n") = Count(calls[i].text, "\n")

\* the first n calls of the two engines were given the same texts
SameInputs(n) == \A j \in 1..n : calls[j].text = earlier.calls[j].text

\* no pattern has timed out in the first n calls of either engine
NoTimeoutIn(n) ==
    \A j \in 1..n : /\ calls[j].report.warnings = << >>
                    /\ earlier.calls[j].report.warnings = << >>

NonBlank(secret) == Strip(secret) # << >>

\* C21: once tokenize has returned a token for a non-blank secret, every
\* later call of tokenize on that secret before the next reset returns the
\* same token, whatever the category and the calls in between
C21_Monotonic ==
    \A i, j \in 1..Len(session) :
        i < j /\ session[i].secret = session[j].secret /\ NonBlank(session[i].secret)
            => session[j].token = session[i].token

\* call j of the session is the first to observe its normalized secret
FirstObserved(j) ==
    /\ NonBlank(session[j].secret)
    /\ \A i \in 1..(j - 1) :
          NonBlank(session[i].secret) =>
              Normalize(session[i].secret) # Normalize(session[j].secret)

\* the number that call j gives: one more than the first observations made
\* before it under its category
SequenceNumber(j) ==
    1 + Cardinality({i \in 1..(j - 1) :
                        /\ FirstObserved(i)
                        /\ CategoryUpper(session[i].category)
                               = CategoryUpper(session[j].category)})

\* C22: the k-th distinct normalized secret first observed under a category
\* receives the token <CATEGORY_k>, and two different normalized secrets never
\* share a token
C22_SequentialTokens ==
    /\ \A j \in 1..Len(session) :
          FirstObserved(j) =>
              session[j].token = TokenText(CategoryUpper(session[j].category),
                                           SequenceNumber(j))
    /\ \A i, j \in 1..Len(session) :
          /\ NonBlank(session[i].secret)
          /\ NonBlank(session[j].secret)
          /\ Normalize(session[i].secret) # Normalize(session[j].secret)
          => session[i].token # session[j].token

(***************************************************************************)
(* Properties of the report and of one pattern pass                        *)
(***************************************************************************)
\* RedactionEngine.get_redaction_summary
get_redaction_summary == get_summary(last_report)

\* C23: after every call of redact has returned, get_redaction_summary()
\* equals the category summary of the report that this call returned, also
\* for a call on empty input and for one that redacted nothing
C23_SummaryOfLastCall ==
    pc = "idle" /\ calls # << >> =>
        get_redaction_summary = get_summary(calls[Len(calls)].report)

(***************************************************************************)
(* Properties of attachment names and of unsafe entry names                *)
(***************************************************************************)
\* the names of the attachments of the archive, without the directory
AttachmentNames(f) ==
    {SubSeq(AttachmentEntries(f)[i], Len(ATTACHMENTS_DIR) + 2,
            Len(AttachmentEntries(f)[i])) : i \in 1..Len(AttachmentEntries(f))}

\* name is <base>_k<ext> of wanted, for the smallest k >= 1 that no name of
\* taken has
SmallestFree(name, wanted, taken) ==
    \E k \in 1..(Cardinality(taken) + 1) :
        /\ name = Numbered(splitext(wanted), k)
        /\ name \notin taken
        /\ \A j \in 1..(k - 1) : Numbered(splitext(wanted), j) \in taken

\* C24: a call of add_attachment that succeeds returns the sanitized name
\* when no attachment has it, and otherwise <base>_k<ext> for the smallest
\* k >= 1 that no attachment has; the same name added again and again to a
\* bundle without attachments yields name, name_1, name_2, ... in order
C24_SmallestFreeName ==
    /\ [][AddStep /\ outcome'.raised = "none" =>
             IF sanitize_filename(args'.name) \notin AttachmentNames(file)
             THEN outcome'.value = sanitize_filename(args'.name)
             ELSE SmallestFree(outcome'.value, sanitize_filename(args'.name),
                               AttachmentNames(file))]_vars
    /\ [][adds' = adds /\ AttachmentEntries(file) = << >>
             /\ AttachmentEntries(file') # << >> =>
                 \A i \in 1..Len(AttachmentEntries(file')) :
                     AttachmentEntries(file')[i] =
                         ATTACHMENTS_DIR \o <<"/">> \o
                             (IF i = 1 THEN NAME_A
                              ELSE Numbered(splitext(NAME_A), i - 1))]_vars

\* C24 witness: a.txt has been added to a written bundle that held a.txt,
\* a_1.txt, ..., a_18.txt, and a_19.txt was returned
C24_Witness ==
    /\ origin.created
    /\ outcome.op = "add_attachment"
    /\ outcome.raised = "none"
    /\ args.name = NAME_A
    /\ outcome.value = <<"a", "_", "1", "9", ".", "t", "x", "t">>
    /\ Len(AttachmentEntries(file)) = MAX_ATTACHMENTS

(***************************************************************************)
(* Properties of the pattern registry and of the path anonymizer           *)
(***************************************************************************)
\* C25: get_patterns_by_priority(m) returns exactly the registry patterns of
\* priority at least m, by priority descending, and among patterns of equal
\* priority the one with the longer regex source first
C25_ByPriorityThenLength ==
    listing.called =>
        /\ {listing.result[i] : i \in 1..Len(listing.result)}
               = {REGISTRY[i] : i \in {j \in 1..Len(REGISTRY) :
                                          REGISTRY[j].priority >= listing.min_priority}}
        /\ \A i, j \in 1..Len(listing.result) :
              i < j =>
                  \/ listing.result[i].priority > listing.result[j].priority
                  \/ /\ listing.result[i].priority = listing.result[j].priority
                     /\ Len(listing.result[i].regex.pattern)
                            >= Len(listing.result[j].regex.pattern)

(***************************************************************************)
(* Properties of the path anonymizer                                       *)
(***************************************************************************)
\* the module installed below the directory that renders as placeholder, with
\* the rewrites of an applied in the order project root, virtual environment,
\* site-packages
Rendered(an, placeholder) ==
    placeholder
    \o (IF an.anonymize_venv THEN PH_VENV ELSE VENV_DIR)
    \o (IF an.anonymize_site_packages THEN PH_SITE_PACKAGES ELSE S_SITE_PACKAGES)
    \o <<"/">> \o MODULE_FILE

\* C26: anonymize applies its rewrites in the order project root, virtual
\* environment, site-packages, temporary directories, home directory, user
\* name, each on the output of the previous one: a path below the project
\* root, a virtual environment and site-packages renders as
\* <PROJECT>/<VENV>/<SITE_PACKAGES>/..., also when the project root lies below
\* the home directory, and the same path below the home directory renders
\* with ~ in front
C26_FixedOrder ==
    anonymized.called =>
        /\ anonymized.text = Installed(anonymized.anonymizer.project_root)
              => anonymized.result = Rendered(anonymized.anonymizer, PH_PROJECT)
        /\ anonymized.text = Installed(HOME_ALICE)
              => anonymized.result = Rendered(anonymized.anonymizer, PH_HOME)

C26_Witness ==
    /\ anonymized.called
    /\ anonymized.anonymizer.project_root = ROOT_IN_HOME
    /\ anonymized.anonymizer.anonymize_venv
    /\ anonymized.anonymizer.anonymize_site_packages
    /\ anonymized.text = Installed(ROOT_IN_HOME)
    /\ anonymized.result = PH_PROJECT \o PH_VENV \o PH_SITE_PACKAGES \o <<"/">>
                           \o MODULE_FILE

(***************************************************************************)
(* Properties of one pattern pass (_apply_pattern)                         *)
(***************************************************************************)
\* a step in which _apply_pattern ran to its end: no timeout, no exception
PassStep ==
    /\ pc = "patterns"
    /\ applied' # applied
    /\ report'.warnings = report.warnings
    /\ failure' = failure

\* the replacements that the pass of this step collected
NewSpans == (Len(spans) + 1)..Len(spans')

\* the tokens of the RedactionMatch entries that the pass of this step added
NewMatches == (Len(report.matches) + 1)..Len(report'.matches)

\* replacement k of this pass has an entry in the report
Reported(k) == \E m \in NewMatches : report'.matches[m].original = spans'[k].secret

\* C27: within one pattern pass the token written for a secret is not
\* rewritten by the replacement of another secret of the same pass: where a
\* secret that the pass reports was matched, the text after the pass carries
\* its token; and a secret matched twice has one entry in the report
C27_TokenNotRewritten ==
    [][PassStep =>
          /\ \A k \in NewSpans :
                Reported(k) => Carried(result', k, 1) = spans'[k].token
          /\ \A m \in NewMatches : \A n \in NewMatches :
                report'.matches[m].original = report'.matches[n].original => m = n]_vars

\* C28: after a pattern pass that did not time out, every span that the pass
\* matched (its secret of at least MIN_SECRET_LENGTH characters and not a
\* token already) is replaced in full by its token, also when one matched
\* secret is a prefix or a substring of another
C28_SpansReplacedInFull ==
    [][PassStep =>
          \A k \in NewSpans : Carried(result', k, 1) = spans'[k].token]_vars

\* the step in which redact hands its text to the path anonymizer and returns
ReturnStep == pc = "patterns" /\ pc' = "idle" /\ Len(calls') > Len(calls)

\* C29: a literal replacement never alters a token inserted earlier in the
\* same call of redact: a token that stands in the text before a pattern pass
\* stands there after it, and every token that the report of the call names
\* stands intact in the text handed to the path anonymizer
C29_TokensIntact ==
    [][/\ PassStep =>
              \A k \in 1..Len(spans) :
                  Carried(result, k, 1) = spans[k].token
                      => Carried(result', k, 1) = spans[k].token
       /\ ReturnStep =>
              \A m \in 1..Len(report.matches) :
                  Contains(result.text, report.matches[m].token)]_vars

(***************************************************************************)
(* Properties of the two readers of entry names                            *)
(***************************************************************************)
\* C30: validate_bundle and read_bundle agree on unsafe entry names: for
\* every archive on which read_bundle raises the Security error (an entry
\* name with "..", or beginning with "/" or "\"), the result that
\* validate_bundle returns lists an error
C30_ValidatorAgrees ==
    (/\ file.kind = "zip"
     /\ \E now \in Clock : read_bundle(file, now).raised = "SecurityError"
     /\ validate_bundle(file).raised = "none")
        => /\ validate_bundle(file).value.errors # << >>
           /\ ~validate_bundle(file).value.valid

====
